---- MODULE Spec2Model ----
(***************************************************************************)
(* grpcurl: the RPC driver (InvokeRPC) run against the repository's test   *)
(* service (TestServer) and observed through the test suite's spy handler. *)
(*                                                                         *)
(* The handler and the test service are translated from the sources; the   *)
(* driver itself and the gRPC stream it runs on are modelled from the      *)
(* specification (sections 4.4, 5 and 7).                                  *)
(*                                                                         *)
(* Further parts, each with a specification of its own: the descriptor     *)
(* sources and the schema export (SpecDesc), and the request parsers       *)
(* (SpecParse).                                                            *)
(***************************************************************************)
EXTENDS Integers, Sequences, FiniteSets, TLC

\* longest request stream handed to the supplier
MaxReqs == 3

\* most imports a file of the schema declares
MaxDeps == 2

\* most symbols an export is asked for
MaxSyms == 2

\* nested calls a goroutine's stack holds before the runtime aborts the
\* program; more than any chain of imports without a cycle needs
MaxDepth == 4

\* longest input handed to a request parser
MaxInput == 3

\* most calls of Next made on one parser
MaxCalls == 6

\* messages given to a formatter, fields of a message
MaxMsgs == 3

MaxFields == 2

\* longest text of a header list
MaxHeaderText == 6

\* requests made to the bank
MaxBankCalls == 2

\* sessions the chat server opens, entries of a session's history
MaxSessions == 1

MaxHistory == 1

----------------------------------------------------------------------------
\* Inputs of the tests

Methods == {"UnaryCall", "StreamingInputCall", "StreamingOutputCall",
            "HalfDuplexCall", "FullDuplexCall"}

IsClientStreaming(m) == m \in {"StreamingInputCall", "HalfDuplexCall", "FullDuplexCall"}

IsServerStreaming(m) == m \in {"StreamingOutputCall", "HalfDuplexCall", "FullDuplexCall"}

IsBidi(m) == IsClientStreaming(m) /\ IsServerStreaming(m)

\* codes.OK and the non-OK codes the tests ask the server to fail with
Codes == {"OK", "InvalidArgument", "Internal"}

\* request texts: two well-formed payloads and one that does not parse
RequestData == {"P1", "P2", "bad"}

SeqsUpTo(S, n) == UNION {[1..k -> S] : k \in 0..n}

NoMsg == [body |-> 0, params |-> <<>>]

\* decoding of a request text into a request message (payload body length,
\* response parameters); "bad" is not a well-formed message
Unmarshal(data) ==
    CASE data = "P1" -> [err |-> "nil", msg |-> [body |-> 1, params |-> <<10>>]]
      [] data = "P2" -> [err |-> "nil", msg |-> [body |-> 2, params |-> <<10, 20>>]]
      [] OTHER       -> [err |-> "parse", msg |-> NoMsg]

\* JSON text of a response message
MarshalToString(msg) ==
    CASE msg.kind = "payload" /\ msg.val = 1 -> "P1"
      [] msg.kind = "payload" /\ msg.val = 2 -> "P2"
      [] msg.kind = "payload" -> "P?"
      [] msg.kind = "sized" /\ msg.val = 10 -> "S10"
      [] msg.kind = "sized" /\ msg.val = 20 -> "S20"
      [] msg.kind = "sized" -> "S?"
      [] OTHER -> IF msg.val = 0 THEN "A0" ELSE IF msg.val = 1 THEN "A1"
                  ELSE IF msg.val = 2 THEN "A2" ELSE IF msg.val = 3 THEN "A3"
                  ELSE "A+"

ReplyHeaders == {"some-fake-header-1: val1", "some-fake-header-2: val2"}

ReplyTrailers == {"some-fake-trailer-1: valA", "some-fake-trailer-2: valB"}

\* makeHeaders: the reply headers and trailers, plus fail-early or fail-late
makeHeaders(code, failLate) ==
    [replyHeaders  |-> ReplyHeaders,
     replyTrailers |-> ReplyTrailers,
     failEarly     |-> IF code # "OK" /\ ~failLate THEN code ELSE "OK",
     failLate      |-> IF code # "OK" /\ failLate THEN code ELSE "OK"]

----------------------------------------------------------------------------
\* The spy handler of the test suite

NewHandler(reqs) ==
    [method |-> "", methodCount |-> 0, reqHeadersCount |-> 0,
     reqMessages |-> reqs, reqMessagesCount |-> 0,
     respHeaders |-> {}, respHeadersCount |-> 0,
     respMessages |-> <<>>,
     respTrailers |-> {}, respStatus |-> "none", respTrailersCount |-> 0]

\* variant: the query that finds the input exhausted is not counted
getRequestData_M(hh) ==
    LET n == hh.reqMessagesCount + 1 IN
    IF n > Len(hh.reqMessages)
    THEN [h |-> hh, data |-> "", err |-> "EOF"]
    ELSE [h |-> [hh EXCEPT !.reqMessagesCount = n], data |-> hh.reqMessages[n], err |-> "nil"]

getRequestData(hh) ==
    LET n == hh.reqMessagesCount + 1 IN
    IF n > Len(hh.reqMessages)
    THEN [h |-> [hh EXCEPT !.reqMessagesCount = n], data |-> "", err |-> "EOF"]
    ELSE [h |-> [hh EXCEPT !.reqMessagesCount = n], data |-> hh.reqMessages[n], err |-> "nil"]

OnResolveMethod(hh, md) ==
    [hh EXCEPT !.methodCount = @ + 1, !.method = md]

\* variant: the headers are kept but not counted
OnSendHeaders_M(hh, md) ==
    hh

OnSendHeaders(hh, md) ==
    [hh EXCEPT !.reqHeadersCount = @ + 1]

\* variant: empty metadata is not taken for a header event
OnReceiveHeaders_M(hh, md) ==
    IF md = {} THEN hh
    ELSE [hh EXCEPT !.respHeadersCount = @ + 1, !.respHeaders = md]

OnReceiveHeaders(hh, md) ==
    [hh EXCEPT !.respHeadersCount = @ + 1, !.respHeaders = md]

\* variant: the response is counted on the request counter as well
OnReceiveResponse_M(hh, msg) ==
    [hh EXCEPT !.respMessages = Append(@, MarshalToString(msg)),
               !.reqMessagesCount = @ + 1]

OnReceiveResponse(hh, msg) ==
    [hh EXCEPT !.respMessages = Append(@, MarshalToString(msg))]

\* variant: the status is not recorded
OnReceiveTrailers_M(hh, stat, md) ==
    [hh EXCEPT !.respTrailersCount = @ + 1, !.respTrailers = md]

OnReceiveTrailers(hh, stat, md) ==
    [hh EXCEPT !.respTrailersCount = @ + 1, !.respTrailers = md, !.respStatus = stat]

----------------------------------------------------------------------------
VARIABLES
    method,      \* the method the call names
    resolvable,  \* whether the descriptor source resolves the symbol
    headers,     \* request headers of the call
    h,           \* the handler
    events,      \* handler callbacks in the order the driver issued them
    supplied,    \* data the supplier has yielded, in order
    pc,          \* position of the driver (and of its receiver activity)
    spc,         \* position of the sender activity
    req,         \* the request message the sender is about to send
    sendErr,     \* error the sender stopped with
    result,      \* what InvokeRPC returned
    stat,        \* final status of the stream as seen by the client
    cancelled,   \* the caller's context has been cancelled
    c2s,         \* request messages in flight to the server
    sendClosed,  \* the client half-closed the stream
    wireLog,     \* every request message put on the wire, in order
    s2c,         \* response messages in flight to the client
    hdrArrived,  \* the server's header frame has been sent
    srvPc,       \* position of the server's method handler
    srvCode,     \* status the server ended the call with
    srvTrailers, \* trailers the server set
    srvReqs,     \* HalfDuplexCall: buffered requests
    srvOut,      \* responses the server still has to send
    srvSz,       \* StreamingInputCall: aggregated payload size
    srvEmitted,  \* every response the server sent, in order
    variant,     \* kind of descriptor source under construction
    fdset,       \* the FileDescriptorSet a protoset source is built from
    given,       \* the file descriptors a file source is built from
    dpc,         \* position of the descriptor source: new, ready or failed
    derr,        \* error the constructor of the source returned
    files,       \* fileSource.files: file name -> file descriptor
    wop,         \* the export operation that ran
    wsyms,       \* the symbols it was asked for
    werr,        \* the error it returned
    out,         \* bytes written to the output of WriteProtoset
    created,     \* paths WriteProtoFiles created in the file system
    orig,        \* files of the source whose export was loaded again
    unimplSeen,  \* a reflection RPC has been answered UNIMPLEMENTED
    lastOp,      \* last operation on the server-reflection source
    lastErr,     \* error that operation returned
    format,      \* format of the request parser
    input,       \* the input the request parser was created on
    unread,      \* what is left of it to read
    perr,        \* the error the parser's reader latched
    requestCount,\* the parser's requestCount field
    results,     \* what each call of Next returned, in order
    msgs,        \* messages Next has filled in, in order
    useSeparator,\* textFormatter.useSeparator
    numFormatted,\* textFormatter.numFormatted
    pending,     \* messages still to be formatted
    formatted,   \* what each call of the formatter was given and returned
    fpc,         \* position of the program that formats: idle, formatting,
                 \* reading (its output is read back), done or panicked
    reader,      \* the text request parser reading the output back
    readBack,    \* what each call of that parser returned
    env,         \* the environment: variable name -> value
    inHeaders,   \* the header list given to ExpandHeaders
    hpc,         \* position of the caller: idle, new, expanded or again
    outHeaders,  \* the list ExpandHeaders returned
    herr,        \* the error it returned
    outAgain,    \* the list ExpandHeaders returned for outHeaders
    errAgain,    \* the error it returned then
    cmd,         \* what the command line asks for
    cformat,     \* the -format flag
    cverbose,    \* the -v flag
    cpc,         \* position of main: idle, start, validated, dialed,
                 \* ready, returned (InvokeRPC has) or exited
    exitCode,    \* the code the program exited with
    failErr,     \* the error fail was called with
    hstat,       \* handler.stat
    respCount,   \* handler.respCount
    ctf,         \* numFormatted of the program's text formatter
    build,       \* the bank's handlers: those of bank.go or those of auth.go
    AccountNumbersByCustomer, \* accounts.AccountNumbersByCustomer
    AccountsByNumber,         \* keys of accounts.AccountsByNumber
    AccountNumbers,           \* accounts.AccountNumbers
    Customers,                \* accounts.Customers
    LastAccountNum,           \* accounts.LastAccountNum
    accountHeap, \* every account allocated: number -> balance, transactions
    calls,       \* the requests: what each asks, how far its handler is
    chatsBySession,     \* keys of chatServer.chatsBySession
    chatsAwaitingAgent, \* chatServer.chatsAwaitingAgent
    lastSession,        \* chatServer.lastSession
    sessions,    \* every session allocated: ID -> customer, active, cust, agents, history
    custStreams, \* the streams of ChatCustomer: position, customer, session, last request
    agentStreams,\* the streams of ChatAgent
    crashed      \* a handler has panicked

cliVars == <<method, resolvable, headers, h, events, supplied, pc, spc, req,
             sendErr, result, stat, cancelled>>

wireVars == <<c2s, sendClosed, wireLog, s2c, hdrArrived>>

srvVars == <<srvPc, srvCode, srvTrailers, srvReqs, srvOut, srvSz, srvEmitted>>

rpcVars == <<cliVars, wireVars, srvVars>>

descVars == <<variant, fdset, given, dpc, derr, files, wop, wsyms, werr,
              out, created, orig, unimplSeen, lastOp, lastErr>>

parserVars == <<format, input, unread, perr, requestCount, results, msgs>>

fmtVars == <<useSeparator, numFormatted, pending, formatted, fpc, reader, readBack>>

hdrVars == <<env, inHeaders, hpc, outHeaders, herr, outAgain, errAgain>>

mainVars == <<cmd, cformat, cverbose, cpc, exitCode, failErr, hstat, respCount, ctf>>

bankVars == <<build, AccountNumbersByCustomer, AccountsByNumber, AccountNumbers,
              Customers, LastAccountNum, accountHeap, calls>>

chatVars == <<chatsBySession, chatsAwaitingAgent, lastSession, sessions,
              custStreams, agentStreams, crashed>>

\* the parts modelled after the request parsers
laterVars == <<fmtVars, hdrVars, mainVars, bankVars, chatVars>>

\* what the formatter, header expansion and the command-line program leave
\* alone
fmtRest == <<rpcVars, descVars, parserVars, hdrVars, mainVars, bankVars, chatVars>>

hdrRest == <<rpcVars, descVars, parserVars, fmtVars, mainVars, bankVars, chatVars>>

mainRest == <<rpcVars, descVars, parserVars, fmtVars, hdrVars, bankVars, chatVars>>

bankRest == <<rpcVars, descVars, parserVars, fmtVars, hdrVars, mainVars, chatVars>>

chatRest == <<rpcVars, descVars, parserVars, fmtVars, hdrVars, mainVars, bankVars>>

\* state of the parts of the program an RPC does not touch
restVars == <<descVars, parserVars, laterVars>>

vars == <<rpcVars, restVars>>

\* no descriptor source is under construction
DescIdle ==
    /\ variant = "none"
    /\ fdset = <<>>
    /\ given = <<>>
    /\ dpc = "idle"
    /\ derr = "nil"
    /\ files = <<>>
    /\ wop = "none"
    /\ wsyms = <<>>
    /\ werr = "nil"
    /\ out = <<>>
    /\ created = {}
    /\ orig = <<>>
    /\ unimplSeen = FALSE
    /\ lastOp = [op |-> "none", answer |-> "none"]
    /\ lastErr = "nil"

\* no request parser has been created
ParserIdle ==
    /\ format = "none"
    /\ input = <<>>
    /\ unread = <<>>
    /\ perr = "nil"
    /\ requestCount = 0
    /\ results = <<>>
    /\ msgs = <<>>

\* no formatter has been created
FmtIdle ==
    /\ useSeparator = FALSE
    /\ numFormatted = 0
    /\ pending = <<>>
    /\ formatted = <<>>
    /\ fpc = "idle"
    /\ reader = [unread |-> <<>>, err |-> "nil", requestCount |-> 0]
    /\ readBack = <<>>

\* ExpandHeaders has not been called
HdrIdle ==
    /\ env = <<>>
    /\ inHeaders = <<>>
    /\ hpc = "idle"
    /\ outHeaders = <<>>
    /\ herr = "nil"
    /\ outAgain = <<>>
    /\ errAgain = "nil"

\* the command-line program has not been started
MainIdle ==
    /\ cmd = "none"
    /\ cformat = "none"
    /\ cverbose = FALSE
    /\ cpc = "idle"
    /\ exitCode = "none"
    /\ failErr = "none"
    /\ hstat = "none"
    /\ respCount = 0
    /\ ctf = 0

\* the bank has not been started
BankIdle ==
    /\ build = "none"
    /\ AccountNumbersByCustomer = <<>>
    /\ AccountsByNumber = {}
    /\ AccountNumbers = <<>>
    /\ Customers = <<>>
    /\ LastAccountNum = 0
    /\ accountHeap = <<>>
    /\ calls = <<>>

\* the chat server has not been started
ChatIdle ==
    /\ chatsBySession = {}
    /\ chatsAwaitingAgent = <<>>
    /\ lastSession = 0
    /\ sessions = <<>>
    /\ custStreams = <<>>
    /\ agentStreams = <<>>
    /\ crashed = FALSE

LaterIdle == FmtIdle /\ HdrIdle /\ MainIdle /\ BankIdle /\ ChatIdle

\* request streams the tests and the CLI hand to a method: unary and
\* server-stream methods take one message (or none)
RequestStreams(m) ==
    IF IsClientStreaming(m) THEN SeqsUpTo(RequestData, MaxReqs)
    ELSE SeqsUpTo(RequestData, 1)

Init ==
    /\ method \in Methods
    /\ resolvable \in BOOLEAN
    /\ \E code \in Codes, failLate \in BOOLEAN : headers = makeHeaders(code, failLate)
    /\ \E reqs \in RequestStreams(method) : h = NewHandler(reqs)
    /\ events = <<>>
    /\ supplied = <<>>
    /\ pc = "resolve"
    /\ spc = "idle"
    /\ req = NoMsg
    /\ sendErr = "nil"
    /\ result = "running"
    /\ stat = "none"
    /\ cancelled = FALSE
    /\ c2s = <<>>
    /\ sendClosed = FALSE
    /\ wireLog = <<>>
    /\ s2c = <<>>
    /\ hdrArrived = FALSE
    /\ srvPc = "idle"
    /\ srvCode = "none"
    /\ srvTrailers = {}
    /\ srvReqs = <<>>
    /\ srvOut = <<>>
    /\ srvSz = 0
    /\ srvEmitted = <<>>
    /\ DescIdle
    /\ ParserIdle
    /\ LaterIdle

\* no RPC is in progress
RpcIdle ==
    /\ method = "UnaryCall"
    /\ resolvable = TRUE
    /\ headers = makeHeaders("OK", FALSE)
    /\ h = NewHandler(<<>>)
    /\ events = <<>>
    /\ supplied = <<>>
    /\ pc = "idle"
    /\ spc = "idle"
    /\ req = NoMsg
    /\ sendErr = "nil"
    /\ result = "none"
    /\ stat = "none"
    /\ cancelled = FALSE
    /\ c2s = <<>>
    /\ sendClosed = FALSE
    /\ wireLog = <<>>
    /\ s2c = <<>>
    /\ hdrArrived = FALSE
    /\ srvPc = "idle"
    /\ srvCode = "none"
    /\ srvTrailers = {}
    /\ srvReqs = <<>>
    /\ srvOut = <<>>
    /\ srvSz = 0
    /\ srvEmitted = <<>>

----------------------------------------------------------------------------
\* The gRPC stream, as the driver and the service see it

\* the server's header frame goes out with its first message or its status
HeadersSeen == IF hdrArrived THEN headers.replyHeaders ELSE {}

\* variant: the receive side does not look at the context
CancelStatus_M == {}

\* a receive on a call whose context is cancelled ends the stream with Canceled
CancelStatus == IF cancelled THEN {"Canceled"} ELSE {}

\* statuses with which the client may see the stream end at this point
EndStatus ==
    CancelStatus \cup (IF srvPc = "done" /\ s2c = <<>> THEN {srvCode} ELSE {})

TrailersSeen(st) == IF srvPc = "done" /\ st = srvCode THEN srvTrailers ELSE {}

----------------------------------------------------------------------------
\* The RPC driver: InvokeRPC

\* the request supplier the driver is given: next request text, decoded
RequestSupplier(hh) ==
    LET r == getRequestData(hh)
        u == Unmarshal(r.data)
    IN  IF r.err # "nil" THEN [h |-> r.h, err |-> r.err, msg |-> NoMsg]
        ELSE [h |-> r.h, err |-> u.err, msg |-> u.msg]

\* step 2: resolve the symbol to a method
Resolve ==
    /\ pc = "resolve"
    /\ IF resolvable
       THEN /\ h' = OnResolveMethod(h, method)
            /\ events' = Append(events, "OnResolveMethod")
            /\ pc' = "sendHeaders"
            /\ UNCHANGED result
       ELSE /\ pc' = "done"
            /\ result' = "SchemaError"
            /\ UNCHANGED <<h, events>>
    /\ UNCHANGED <<method, resolvable, headers, supplied, spc, req, sendErr, stat, cancelled>>
    /\ UNCHANGED <<wireVars, srvVars>>
    /\ UNCHANGED restVars

\* step 3: emit the request headers and open the stream
SendHeaders ==
    /\ pc = "sendHeaders"
    /\ h' = OnSendHeaders(h, headers)
    /\ events' = Append(events, "OnSendHeaders")
    /\ pc' = "headers"
    /\ spc' = "supply"
    /\ srvPc' = "start"
    /\ UNCHANGED <<method, resolvable, headers, supplied, req, sendErr, result, stat, cancelled>>
    /\ UNCHANGED <<wireVars, srvCode, srvTrailers, srvReqs, srvOut, srvSz, srvEmitted>>
    /\ UNCHANGED restVars

\* sender loop: ask the supplier for the next request
Supply ==
    /\ spc = "supply"
    /\ IF cancelled
       THEN /\ spc' = "stopped"
            /\ UNCHANGED <<h, supplied, req, sendErr, sendClosed>>
       ELSE LET r == RequestSupplier(h) IN
            /\ h' = r.h
            /\ IF r.err = "nil"
               THEN /\ req' = r.msg
                    /\ supplied' = Append(supplied, r.msg)
                    /\ spc' = "send"
                    /\ UNCHANGED <<sendErr, sendClosed>>
               ELSE /\ sendClosed' = TRUE
                    /\ sendErr' = IF r.err = "EOF" THEN "nil" ELSE "SupplierError"
                    /\ spc' = "stopped"
                    /\ UNCHANGED <<req, supplied>>
    /\ UNCHANGED <<method, resolvable, headers, events, pc, result, stat, cancelled>>
    /\ UNCHANGED <<c2s, wireLog, s2c, hdrArrived, srvVars>>
    /\ UNCHANGED restVars

\* sender loop: put the request on the wire; the send fails once the call
\* is over (cancelled, or ended by the server)
Send ==
    /\ spc = "send"
    /\ \/ /\ cancelled \/ srvPc = "done"
          /\ spc' = "stopped"
          /\ UNCHANGED <<c2s, wireLog>>
       \/ /\ ~cancelled
          /\ c2s' = Append(c2s, req)
          /\ wireLog' = Append(wireLog, req)
          /\ spc' = "supply"
    /\ UNCHANGED <<method, resolvable, headers, h, events, supplied, pc, req,
                   sendErr, result, stat, cancelled>>
    /\ UNCHANGED <<sendClosed, s2c, hdrArrived, srvVars>>
    /\ UNCHANGED restVars

\* the receive side starts once the sender is through, except in a bidi call
ReceiverMayRun == IsBidi(method) \/ spc = "stopped"

\* step 5: response headers, empty when none arrived
RecvHeaders ==
    /\ pc = "headers"
    /\ ReceiverMayRun
    /\ hdrArrived \/ srvPc = "done" \/ cancelled
    /\ h' = OnReceiveHeaders(h, HeadersSeen)
    /\ events' = Append(events, "OnReceiveHeaders")
    /\ pc' = "recv"
    /\ UNCHANGED <<method, resolvable, headers, supplied, spc, req, sendErr, result, stat, cancelled>>
    /\ UNCHANGED <<wireVars, srvVars>>
    /\ UNCHANGED restVars

\* receiver loop of the server-streaming shapes; a receive on a cancelled
\* call yields no message
RecvMsg ==
    /\ pc = "recv"
    /\ IsServerStreaming(method)
    /\ \/ /\ s2c # <<>>
          /\ ~cancelled
          /\ h' = OnReceiveResponse(h, Head(s2c))
          /\ events' = Append(events, "OnReceiveResponse")
          /\ s2c' = Tail(s2c)
          /\ UNCHANGED <<pc, stat>>
       \/ /\ \E st \in EndStatus : stat' = st
          /\ pc' = "trailers"
          /\ UNCHANGED <<h, events, s2c>>
    /\ UNCHANGED <<method, resolvable, headers, supplied, spc, req, sendErr, result, cancelled>>
    /\ UNCHANGED <<c2s, sendClosed, wireLog, hdrArrived, srvVars>>
    /\ UNCHANGED restVars

\* receiver of the shapes that expect exactly one response: the response is
\* handed over only when the call ended with OK
RecvSingle ==
    /\ pc = "recv"
    /\ ~IsServerStreaming(method)
    /\ \E st \in CancelStatus \cup (IF srvPc = "done" THEN {srvCode} ELSE {}) :
          /\ stat' = st
          /\ IF st = "OK" /\ s2c # <<>>
             THEN /\ h' = OnReceiveResponse(h, Head(s2c))
                  /\ events' = Append(events, "OnReceiveResponse")
                  /\ s2c' = Tail(s2c)
             ELSE UNCHANGED <<h, events, s2c>>
    /\ pc' = "trailers"
    /\ UNCHANGED <<method, resolvable, headers, supplied, spc, req, sendErr, result, cancelled>>
    /\ UNCHANGED <<c2s, sendClosed, wireLog, hdrArrived, srvVars>>
    /\ UNCHANGED restVars

\* step 5: the final status and the trailers
Trailers ==
    /\ pc = "trailers"
    /\ h' = OnReceiveTrailers(h, stat, TrailersSeen(stat))
    /\ events' = Append(events, "OnReceiveTrailers")
    /\ pc' = "join"
    /\ UNCHANGED <<method, resolvable, headers, supplied, spc, req, sendErr, result, stat, cancelled>>
    /\ UNCHANGED <<wireVars, srvVars>>
    /\ UNCHANGED restVars

\* variant: a supplier error is returned without waiting for the trailers
Return_M ==
    /\ spc = "stopped"
    /\ pc = "join" \/ (sendErr # "nil" /\ pc \in {"headers", "recv", "trailers"})
    /\ result' = sendErr
    /\ pc' = "done"
    /\ UNCHANGED <<method, resolvable, headers, h, events, supplied, spc, req, sendErr, stat, cancelled>>
    /\ UNCHANGED <<wireVars, srvVars>>
    /\ UNCHANGED restVars

\* step 6: join the sender, then return its error, if any
Return ==
    /\ pc = "join"
    /\ spc = "stopped"
    /\ result' = sendErr
    /\ pc' = "done"
    /\ UNCHANGED <<method, resolvable, headers, h, events, supplied, spc, req, sendErr, stat, cancelled>>
    /\ UNCHANGED <<wireVars, srvVars>>
    /\ UNCHANGED restVars

\* the caller cancels the context of a call in progress
Cancel ==
    /\ pc # "done"
    /\ ~cancelled
    /\ cancelled' = TRUE
    /\ UNCHANGED <<method, resolvable, headers, h, events, supplied, pc, spc, req,
                   sendErr, result, stat>>
    /\ UNCHANGED <<wireVars, srvVars>>
    /\ UNCHANGED restVars

----------------------------------------------------------------------------
\* The test service (TestServer)

\* variant: the two failure codes are taken from each other's header
processMetadata_M(md) ==
    [headers |-> md.replyHeaders, trailers |-> md.replyTrailers,
     failEarly |-> md.failLate, failLate |-> md.failEarly]

\* the reply headers and trailers and the two failure codes of the call
processMetadata(md) ==
    [headers |-> md.replyHeaders, trailers |-> md.replyTrailers,
     failEarly |-> md.failEarly, failLate |-> md.failLate]

\* variant: a late failure is raised at the start as well
EarlyCode_M(md) == IF md.failEarly # "OK" THEN md.failEarly ELSE md.failLate

\* the code a method fails with before it reads or writes anything
EarlyCode(md) == md.failEarly

\* the payload the unary and half-duplex methods echo
PayloadOf(r) == [kind |-> "payload", val |-> r.body]

\* one response per response parameter, of the size it asks for
SizedResponses(r) == [i \in 1..Len(r.params) |-> [kind |-> "sized", val |-> r.params[i]]]

\* variant: the buffered requests are served last first
HalfDuplexResponses_M(reqs) == [i \in 1..Len(reqs) |-> PayloadOf(reqs[Len(reqs) + 1 - i])]

\* HalfDuplexCall serves the buffered requests in order
HalfDuplexResponses(reqs) == [i \in 1..Len(reqs) |-> PayloadOf(reqs[i])]

\* a handler returns: the status (and the header frame, if still unsent) goes out
SrvReturn(code) ==
    /\ srvPc' = "done"
    /\ srvCode' = code
    /\ hdrArrived' = TRUE

\* str.Send
SrvSend(msg) ==
    /\ s2c' = Append(s2c, msg)
    /\ srvEmitted' = Append(srvEmitted, msg)
    /\ hdrArrived' = TRUE

\* a single-request method whose client half-closed without a request never
\* reaches its handler: the runtime ends the call with an error status
NoRequest ==
    /\ srvPc = "start"
    /\ ~IsClientStreaming(method)
    /\ c2s = <<>> /\ sendClosed
    /\ srvPc' = "done"
    /\ \E code \in Codes \ {"OK"} : srvCode' = code
    /\ UNCHANGED <<cliVars, wireVars, srvTrailers, srvReqs, srvOut, srvSz, srvEmitted>>
    /\ UNCHANGED restVars

UnaryCall ==
    LET md == processMetadata(headers) IN
    /\ method = "UnaryCall"
    /\ srvPc = "start"
    /\ c2s # <<>>
    /\ c2s' = Tail(c2s)
    /\ srvTrailers' = md.trailers
    /\ IF EarlyCode(md) # "OK"
       THEN SrvReturn(EarlyCode(md)) /\ UNCHANGED <<s2c, srvEmitted>>
       ELSE IF md.failLate # "OK"
       THEN SrvReturn(md.failLate) /\ UNCHANGED <<s2c, srvEmitted>>
       ELSE SrvReturn("OK") /\ s2c' = Append(s2c, PayloadOf(Head(c2s)))
                            /\ srvEmitted' = Append(srvEmitted, PayloadOf(Head(c2s)))
    /\ UNCHANGED <<cliVars, sendClosed, wireLog, srvReqs, srvOut, srvSz>>
    /\ UNCHANGED restVars

StreamingOutputCall ==
    LET md == processMetadata(headers) IN
    /\ method = "StreamingOutputCall"
    /\ \/ /\ srvPc = "start"
          /\ c2s # <<>>
          /\ c2s' = Tail(c2s)
          /\ srvTrailers' = md.trailers
          /\ IF EarlyCode(md) # "OK"
             THEN SrvReturn(EarlyCode(md)) /\ UNCHANGED srvOut
             ELSE /\ srvOut' = SizedResponses(Head(c2s))
                  /\ srvPc' = "send"
                  /\ UNCHANGED <<srvCode, hdrArrived>>
          /\ UNCHANGED <<s2c, srvEmitted>>
       \/ /\ srvPc = "send"
          /\ srvOut # <<>>
          /\ SrvSend(Head(srvOut))
          /\ srvOut' = Tail(srvOut)
          /\ UNCHANGED <<c2s, srvPc, srvCode, srvTrailers>>
       \/ /\ srvPc = "send"
          /\ srvOut = <<>>
          /\ SrvReturn(md.failLate)
          /\ UNCHANGED <<c2s, s2c, srvEmitted, srvOut, srvTrailers>>
    /\ UNCHANGED <<cliVars, sendClosed, wireLog, srvReqs, srvSz>>
    /\ UNCHANGED restVars

StreamingInputCall ==
    LET md == processMetadata(headers) IN
    /\ method = "StreamingInputCall"
    /\ \/ /\ srvPc = "start"
          /\ srvTrailers' = md.trailers
          /\ IF EarlyCode(md) # "OK"
             THEN SrvReturn(EarlyCode(md))
             ELSE srvPc' = "recv" /\ UNCHANGED <<srvCode, hdrArrived>>
          /\ UNCHANGED <<c2s, s2c, srvEmitted, srvSz>>
       \/ /\ srvPc = "recv"
          /\ c2s # <<>>
          /\ c2s' = Tail(c2s)
          /\ srvSz' = srvSz + Head(c2s).body
          /\ UNCHANGED <<s2c, srvEmitted, srvPc, srvCode, srvTrailers, hdrArrived>>
       \/ /\ srvPc = "recv"
          /\ c2s = <<>> /\ sendClosed
          /\ s2c' = Append(s2c, [kind |-> "aggregated", val |-> srvSz])
          /\ srvEmitted' = Append(srvEmitted, [kind |-> "aggregated", val |-> srvSz])
          /\ SrvReturn(md.failLate)
          /\ UNCHANGED <<c2s, srvSz, srvTrailers>>
    /\ UNCHANGED <<cliVars, sendClosed, wireLog, srvReqs, srvOut>>
    /\ UNCHANGED restVars

FullDuplexCall ==
    LET md == processMetadata(headers) IN
    /\ method = "FullDuplexCall"
    /\ \/ /\ srvPc = "start"
          /\ srvTrailers' = md.trailers
          /\ IF EarlyCode(md) # "OK"
             THEN SrvReturn(EarlyCode(md))
             ELSE srvPc' = "recv" /\ UNCHANGED <<srvCode, hdrArrived>>
          /\ UNCHANGED <<c2s, s2c, srvEmitted, srvOut>>
       \/ /\ srvPc = "recv"
          /\ c2s # <<>>
          /\ c2s' = Tail(c2s)
          /\ srvOut' = SizedResponses(Head(c2s))
          /\ srvPc' = "send"
          /\ UNCHANGED <<s2c, srvEmitted, srvCode, srvTrailers, hdrArrived>>
       \/ /\ srvPc = "send"
          /\ IF srvOut # <<>>
             THEN /\ SrvSend(Head(srvOut))
                  /\ srvOut' = Tail(srvOut)
                  /\ UNCHANGED srvPc
             ELSE /\ srvPc' = "recv"
                  /\ UNCHANGED <<s2c, srvEmitted, srvOut, hdrArrived>>
          /\ UNCHANGED <<c2s, srvCode, srvTrailers>>
       \/ /\ srvPc = "recv"
          /\ c2s = <<>> /\ sendClosed
          /\ SrvReturn(md.failLate)
          /\ UNCHANGED <<c2s, s2c, srvEmitted, srvOut, srvTrailers>>
    /\ UNCHANGED <<cliVars, sendClosed, wireLog, srvReqs, srvSz>>
    /\ UNCHANGED restVars

HalfDuplexCall ==
    LET md == processMetadata(headers) IN
    /\ method = "HalfDuplexCall"
    /\ \/ /\ srvPc = "start"
          /\ srvTrailers' = md.trailers
          /\ IF EarlyCode(md) # "OK"
             THEN SrvReturn(EarlyCode(md))
             ELSE srvPc' = "recv" /\ UNCHANGED <<srvCode, hdrArrived>>
          /\ UNCHANGED <<c2s, s2c, srvEmitted, srvReqs, srvOut>>
       \/ /\ srvPc = "recv"
          /\ c2s # <<>>
          /\ c2s' = Tail(c2s)
          /\ srvReqs' = Append(srvReqs, Head(c2s))
          /\ UNCHANGED <<s2c, srvEmitted, srvOut, srvPc, srvCode, srvTrailers, hdrArrived>>
       \/ /\ srvPc = "recv"
          /\ c2s = <<>> /\ sendClosed
          /\ srvOut' = HalfDuplexResponses(srvReqs)
          /\ srvPc' = "send"
          /\ UNCHANGED <<c2s, s2c, srvEmitted, srvReqs, srvCode, srvTrailers, hdrArrived>>
       \/ /\ srvPc = "send"
          /\ srvOut # <<>>
          /\ SrvSend(Head(srvOut))
          /\ srvOut' = Tail(srvOut)
          /\ UNCHANGED <<c2s, srvReqs, srvPc, srvCode, srvTrailers>>
       \/ /\ srvPc = "send"
          /\ srvOut = <<>>
          /\ SrvReturn(md.failLate)
          /\ UNCHANGED <<c2s, s2c, srvEmitted, srvReqs, srvOut, srvTrailers>>
    /\ UNCHANGED <<cliVars, sendClosed, wireLog, srvSz>>
    /\ UNCHANGED restVars

\* a streaming handler that finds its context cancelled returns the
\* context's error
ContextErr ==
    /\ cancelled
    /\ srvPc \in {"recv", "send"}
    /\ SrvReturn("Canceled")
    /\ UNCHANGED <<cliVars, c2s, sendClosed, wireLog, s2c, srvTrailers, srvReqs,
                   srvOut, srvSz, srvEmitted>>
    /\ UNCHANGED restVars

----------------------------------------------------------------------------
Driver == Resolve \/ SendHeaders \/ Supply \/ Send \/ RecvHeaders
          \/ RecvMsg \/ RecvSingle \/ Trailers \/ Return

Server == NoRequest \/ UnaryCall \/ StreamingOutputCall \/ StreamingInputCall
          \/ FullDuplexCall \/ HalfDuplexCall

\* calls made with a context that is never cancelled (context.Background())
Next == Driver \/ Server

Spec == Init /\ [][Next]_vars

\* calls whose context the caller may cancel; the server may stall, the
\* driver's own steps, the supplier and the handler always return
NextCancel == Driver \/ Server \/ Cancel \/ ContextErr

SpecCancel == Init /\ [][NextCancel]_vars /\ WF_vars(Driver)

----------------------------------------------------------------------------
\* Properties of the RPC driver

\* the call ran to a final gRPC status and InvokeRPC has returned
Finished == pc = "done" /\ result # "SchemaError"

\* every request text the supplier holds is a well-formed message
WellFormed == \A i \in 1..Len(h.reqMessages) : h.reqMessages[i] # "bad"

\* the supplier holds as many messages as the shape of the method takes
FitsShape == IsClientStreaming(method) \/ Len(h.reqMessages) = 1

\* ev follows OnResolveMethod OnSendHeaders OnReceiveHeaders OnReceiveResponse* OnReceiveTrailers
FollowsGrammar(ev) ==
    /\ Len(ev) >= 1 => ev[1] = "OnResolveMethod"
    /\ Len(ev) >= 2 => ev[2] = "OnSendHeaders"
    /\ Len(ev) >= 3 => ev[3] = "OnReceiveHeaders"
    /\ \A i \in 4..Len(ev) :
          \/ ev[i] = "OnReceiveResponse"
          \/ ev[i] = "OnReceiveTrailers" /\ i = Len(ev)

Last(ev) == ev[Len(ev)]

\* C1: the handler's events come in the order OnResolveMethod, OnSendHeaders,
\* OnReceiveHeaders, OnReceiveResponse*, OnReceiveTrailers on every shape and
\* for every final status; once the call has returned with a final status
\* the four singular events have each been counted exactly once and
\* OnReceiveTrailers is the last event.
C1_EventOrder ==
    /\ FollowsGrammar(events)
    /\ Finished =>
          /\ h.methodCount = 1
          /\ h.reqHeadersCount = 1
          /\ h.respHeadersCount = 1
          /\ h.respTrailersCount = 1
          /\ Len(events) >= 4
          /\ Last(events) = "OnReceiveTrailers"
          /\ Len(events) = 4 + Len(h.respMessages)

C1_Witness ==
    /\ Finished
    /\ method = "FullDuplexCall"
    /\ h.respStatus = "Internal"
    /\ Len(h.respMessages) >= 3

\* C2: when the server ended the call with a non-OK status (and the request
\* supplier did not fail), InvokeRPC returned no error and the handler was
\* handed that status in OnReceiveTrailers.
C2_NonOKIsNotAnError ==
    (Finished /\ srvPc = "done" /\ srvCode # "OK" /\ sendErr = "nil") =>
        /\ result = "nil"
        /\ h.respTrailersCount = 1
        /\ h.respStatus = srvCode

C2_Witness ==
    /\ Finished
    /\ method = "UnaryCall"
    /\ srvCode = "InvalidArgument"
    /\ headers.failLate = "InvalidArgument"
    /\ result = "nil"

\* C3: when the supplier holds N well-formed messages (one for a unary or
\* server-stream method) and the server does not fail early, the supplier
\* has been invoked exactly N+1 times when InvokeRPC returns, and its last
\* invocation returned end-of-input.
C3_SupplierCalls ==
    (Finished /\ WellFormed /\ FitsShape /\ headers.failEarly = "OK") =>
        /\ h.reqMessagesCount = Len(h.reqMessages) + 1
        /\ Len(supplied) = Len(h.reqMessages)
        /\ sendClosed

C3_Witness ==
    /\ Finished
    /\ method = "StreamingInputCall"
    /\ Len(h.reqMessages) = MaxReqs
    /\ WellFormed
    /\ headers.failLate = "Internal"
    /\ h.reqMessagesCount = MaxReqs + 1

\* C4: no OnReceiveResponse precedes OnReceiveHeaders; a finished call has
\* delivered OnReceiveTrailers exactly once whatever the status; when the
\* server's headers never arrived, one OnReceiveHeaders with empty metadata
\* has still been delivered, before the trailers.
C4_HeadersFirstTrailersOnce ==
    /\ \A i \in 1..Len(events) :
          events[i] = "OnReceiveResponse" =>
              \E j \in 1..(i - 1) : events[j] = "OnReceiveHeaders"
    /\ Finished => h.respTrailersCount = 1
    /\ (Finished /\ ~hdrArrived) =>
          /\ h.respHeadersCount = 1
          /\ h.respHeaders = {}
          /\ events = <<"OnResolveMethod", "OnSendHeaders", "OnReceiveHeaders",
                        "OnReceiveTrailers">>
    /\ (Finished /\ hdrArrived) => h.respHeaders = ReplyHeaders

C4_Witness ==
    /\ Finished
    /\ ~hdrArrived
    /\ h.respStatus \notin {"OK", "none"}
    /\ h.respHeadersCount = 1

\* C5: the handler's responses are, in order and without loss or
\* duplication, the responses the server emitted (all of them once a
\* server-streaming call ends with the server's status); the requests on the
\* wire are, in order, the requests the supplier yielded, and the server
\* consumes them in that order; a half-duplex echo returns the request
\* texts in order.
C5_Ordering ==
    /\ Len(h.respMessages) <= Len(srvEmitted)
    /\ \A i \in 1..Len(h.respMessages) : h.respMessages[i] = MarshalToString(srvEmitted[i])
    /\ (Finished /\ IsServerStreaming(method) /\ stat = srvCode) =>
          Len(h.respMessages) = Len(srvEmitted)
    /\ Len(wireLog) <= Len(supplied)
    /\ \A i \in 1..Len(wireLog) : wireLog[i] = supplied[i]
    /\ \A i \in 1..Len(supplied) : supplied[i] = Unmarshal(h.reqMessages[i]).msg
    /\ \A i \in 1..Len(srvReqs) : srvReqs[i] = wireLog[i]
    /\ (Finished /\ method = "HalfDuplexCall" /\ WellFormed /\ headers.failEarly = "OK") =>
          h.respMessages = h.reqMessages

C5_Witness ==
    /\ Finished
    /\ method = "HalfDuplexCall"
    /\ h.reqMessages = <<"P1", "P2", "P1">>
    /\ h.respMessages = <<"P1", "P2", "P1">>
    /\ h.respStatus = "OK"

\* C6: a bidi call runs two activities, the sender and the receiver. Only a
\* sender step invokes the supplier, and it touches nothing else of the
\* handler; only a receiver step issues handler events, and it leaves the
\* supplier's counter alone; InvokeRPC returns only when both have
\* terminated, and after it has returned the handler sees no supplier
\* invocation and no event.
C6_SenderStep == spc' # spc /\ pc' = pc

C6_ReceiverStep == pc' # pc \/ (pc = "recv" /\ spc' = spc)

C6_TwoActivitiesJoined ==
    /\ [](IsBidi(method) /\ pc = "done" => spc \in {"idle", "stopped"})
    /\ [][IsBidi(method) =>
            /\ pc = "done" => (h' = h /\ events' = events /\ supplied' = supplied)
            /\ h'.reqMessagesCount # h.reqMessagesCount =>
                  /\ C6_SenderStep
                  /\ events' = events
                  /\ h' = [h EXCEPT !.reqMessagesCount = @ + 1]
            /\ events' # events =>
                  /\ C6_ReceiverStep
                  /\ h'.reqMessagesCount = h.reqMessagesCount
            /\ pc' # pc /\ spc' # spc => pc = "sendHeaders"]_vars

C6_Witness ==
    /\ IsBidi(method)
    /\ pc = "join"
    /\ spc = "supply"
    /\ h.respTrailersCount = 1
    /\ h.reqMessagesCount < Len(h.reqMessages)

\* C7: when the supplier has returned an error other than end-of-input, the
\* send side is half-closed and the sender has stopped with nothing sent
\* after the failing invocation; InvokeRPC returns the supplier's error, and
\* only after OnReceiveTrailers has been delivered.
C7_SupplierError ==
    /\ sendErr = "SupplierError" =>
          /\ sendClosed
          /\ spc = "stopped"
          /\ h.reqMessagesCount <= Len(h.reqMessages)
          /\ h.reqMessages[h.reqMessagesCount] = "bad"
          /\ Len(wireLog) = h.reqMessagesCount - 1
          /\ pc = "done" => result = "SupplierError"
    /\ result = "SupplierError" =>
          /\ sendErr = "SupplierError"
          /\ h.respTrailersCount = 1
          /\ Last(events) = "OnReceiveTrailers"

C7_Witness ==
    /\ pc = "done"
    /\ result = "SupplierError"
    /\ method = "StreamingInputCall"
    /\ h.reqMessages = <<"P1", "bad", "P2">>
    /\ h.reqMessagesCount = 2
    /\ h.respStatus = "OK"

\* C8: when the server rejects a client-stream or bidi call early with code
\* C and the supplier holds N well-formed messages, then on return the
\* supplier has been invoked at most N+1 times, no response was handed to
\* the handler, OnReceiveTrailers carried C and InvokeRPC returned no error.
C8_FailEarly ==
    (Finished /\ IsClientStreaming(method) /\ headers.failEarly # "OK" /\ WellFormed) =>
        /\ h.reqMessagesCount <= Len(h.reqMessages) + 1
        /\ h.respMessages = <<>>
        /\ \A i \in 1..Len(events) : events[i] # "OnReceiveResponse"
        /\ h.respTrailersCount = 1
        /\ h.respStatus = headers.failEarly
        /\ result = "nil"

C8_Witness ==
    /\ Finished
    /\ method = "HalfDuplexCall"
    /\ headers.failEarly = "InvalidArgument"
    /\ WellFormed
    /\ Len(h.reqMessages) = MaxReqs
    /\ h.reqMessagesCount = 2
    /\ h.respStatus = "InvalidArgument"

RECURSIVE SumParams(_)
SumParams(reqs) ==
    IF reqs = <<>> THEN 0
    ELSE Len(Unmarshal(Head(reqs)).msg.params) + SumParams(Tail(reqs))

\* number of responses of the successful call with these requests
SuccessfulResponses(m, reqs) ==
    IF m = "HalfDuplexCall" THEN Len(reqs) ELSE SumParams(reqs)

\* C9: when the server fails late with code C, a server-stream, half-duplex
\* or full-duplex call hands the handler as many responses as the
\* successful call does, all of them before the one OnReceiveTrailers, which
\* carries C.
C9_FailLate ==
    (Finished /\ IsServerStreaming(method) /\ WellFormed /\ FitsShape
        /\ headers.failEarly = "OK") =>
        /\ Len(h.respMessages) = SuccessfulResponses(method, h.reqMessages)
        /\ h.respStatus = headers.failLate
        /\ h.respTrailersCount = 1
        /\ Last(events) = "OnReceiveTrailers"
        /\ \A i \in 4..(Len(events) - 1) : events[i] = "OnReceiveResponse"
        /\ Len(events) = 4 + SuccessfulResponses(method, h.reqMessages)

C9_Witness ==
    /\ Finished
    /\ method = "FullDuplexCall"
    /\ headers.failLate = "Internal"
    /\ h.reqMessages = <<"P2", "P1", "P2">>
    /\ Len(h.respMessages) = 5
    /\ h.respStatus = "Internal"

\* C10: once the caller's context is cancelled, InvokeRPC eventually
\* returns, even if the server never answers; the sender stops at its next
\* step (supplier call or send) without calling the supplier or sending
\* again, and the receiver's next receive is its last (a receive loop hands
\* over no further response).
C10_CancelTerminates ==
    /\ cancelled ~> pc = "done"
    /\ [][cancelled =>
            /\ spc \in {"supply", "send"} /\ spc' # spc => spc' = "stopped"
            /\ h'.reqMessagesCount = h.reqMessagesCount
            /\ wireLog' = wireLog
            /\ IsServerStreaming(method) => h'.respMessages = h.respMessages
            /\ pc = "recv" /\ h' # h => pc' = "trailers"]_vars

C10_Witness ==
    /\ cancelled
    /\ pc = "done"
    /\ srvPc = "recv"
    /\ h.respStatus = "Canceled"
    /\ h.reqMessagesCount < Len(h.reqMessages)

----------------------------------------------------------------------------
\* Descriptor sources

\* the files of the schemas the sources are built from
FileNames == {"pkg/a.proto", "pkg/b.proto", "c.proto"}

\* the top-level symbols each file defines, in declaration order
Defines(n) ==
    CASE n = "pkg/a.proto" -> <<"a.Svc", "a.Msg">>
      [] n = "pkg/b.proto" -> <<"b.Msg">>
      [] OTHER -> <<"c.Msg">>

\* symbols asked of a source: the defined ones and one that no file defines
Symbols == {"a.Svc", "a.Msg", "b.Msg", "c.Msg", "no.Such"}

NoRepeats(s) == \A i, j \in DOMAIN s : s[i] = s[j] => i = j

\* import lists a file may declare
DepLists == {s \in SeqsUpTo(FileNames, MaxDeps) : NoRepeats(s)}

\* descriptorpb.FileDescriptorProto: dependencies are file names
FileDescriptorProto(n, deps) ==
    [name |-> n, dependency |-> deps, symbols |-> Defines(n), syntax |-> "proto3"]

\* orders in which a set lists files
Orders == {s \in SeqsUpTo(FileNames, Cardinality(FileNames)) : NoRepeats(s)}

\* sets that list each of their files once
PlainSets ==
    {[i \in DOMAIN o |-> FileDescriptorProto(o[i], g[o[i]])] :
        o \in Orders, g \in [FileNames -> DepLists]}

\* a set, with its first file listed again at the end or not
Merged(fs, again) == IF again /\ fs # <<>> THEN Append(fs, fs[1]) ELSE fs

\* descriptorpb.FileDescriptorSet values the protoset loader is handed; sets
\* merged from several protoset files may list a file a second time
FileDescriptorSets == {Merged(fs, again) : fs \in PlainSets, again \in BOOLEAN}

\* desc.CreateFileDescriptor: a file linked to its built dependencies
CreateFileDescriptor(fd, deps) ==
    [name |-> fd.name, deps |-> deps, symbols |-> fd.symbols, syntax |-> fd.syntax]

\* desc.FileDescriptor.AsFileDescriptorProto
AsFileDescriptorProto(d) ==
    [name |-> d.name,
     dependency |-> [i \in 1..Len(d.deps) |-> d.deps[i].name],
     symbols |-> d.symbols,
     syntax |-> d.syntax]

\* the file names a set's dependency lists lead to from n
RECURSIVE ReachableFrom(_, _, _)
ReachableFrom(g, seen, n) ==
    LET next == {g[n][i] : i \in DOMAIN g[n]} \ seen
    IN  IF next = {} THEN seen
        ELSE LET m == CHOOSE m \in next : TRUE
             IN  ReachableFrom(g, ReachableFrom(g, seen \cup {m}, m), n)

\* the declared dependencies form a cycle through n
OnCycle(g, n) == n \in ReachableFrom(g, {}, n)

\* a descriptor already built (by the proto parser) for file n of graph g
RECURSIVE Build(_, _)
Build(g, n) ==
    CreateFileDescriptor(FileDescriptorProto(n, g[n]),
                         [i \in 1..Len(g[n]) |-> Build(g, g[n][i])])

\* schemas whose imports form no cycle: the ones a parser builds
AcyclicGraphs ==
    {g \in [FileNames -> DepLists] : \A n \in FileNames : ~OnCycle(g, n)}

\* a second, different copy of one of the files (or none)
Copies(g) ==
    {<<>>} \cup {<<[Build(g, n) EXCEPT !.syntax = "proto2"]>> : n \in FileNames}

\* lists of built descriptors handed to DescriptorSourceFromFileDescriptors
GivenLists ==
    UNION {{[i \in DOMAIN o |-> Build(g, o[i])] \o dup :
                o \in Orders, dup \in Copies(g)} : g \in AcyclicGraphs}

\* the map DescriptorSourceFromFileDescriptorSet fills first: name -> proto,
\* a later entry of the same name replacing an earlier one
Unresolved(fs) ==
    [n \in {fs[i].name : i \in DOMAIN fs} |->
        fs[CHOOSE i \in DOMAIN fs :
              /\ fs[i].name = n
              /\ \A j \in DOMAIN fs : fs[j].name = n => j <= i]]

\* resolveFileDescriptor, with the loop over the file's dependencies;
\* depth counts the calls on the stack
RECURSIVE resolveFileDescriptor(_, _, _, _)
RECURSIVE resolveDependencies(_, _, _, _, _)
resolveFileDescriptor(unresolved, resolved, filename, depth) ==
    IF depth > MaxDepth THEN [resolved |-> resolved, err |-> "stack overflow"]
    ELSE IF filename \in DOMAIN resolved THEN [resolved |-> resolved, err |-> "nil"]
    ELSE IF filename \notin DOMAIN unresolved
    THEN [resolved |-> resolved, err |-> "no descriptor found"]
    ELSE LET fd == unresolved[filename]
             ds == resolveDependencies(unresolved, resolved, fd.dependency, 1, depth + 1)
         IN  IF ds.err # "nil" THEN ds
             ELSE LET deps == [i \in 1..Len(fd.dependency) |-> ds.resolved[fd.dependency[i]]]
                      built == CreateFileDescriptor(fd, deps)
                  IN  [resolved |-> (filename :> built) @@ ds.resolved, err |-> "nil"]

resolveDependencies(unresolved, resolved, deps, i, depth) ==
    IF i > Len(deps) THEN [resolved |-> resolved, err |-> "nil"]
    ELSE LET r == resolveFileDescriptor(unresolved, resolved, deps[i], depth)
         IN  IF r.err # "nil" THEN r
             ELSE resolveDependencies(unresolved, r.resolved, deps, i + 1, depth)

\* the loop of DescriptorSourceFromFileDescriptorSet over the set's files
RECURSIVE resolveAll(_, _, _)
resolveAll(fs, i, resolved) ==
    IF i > Len(fs) THEN [resolved |-> resolved, err |-> "nil"]
    ELSE LET r == resolveFileDescriptor(Unresolved(fs), resolved, fs[i].name, 1)
         IN  IF r.err # "nil" THEN r ELSE resolveAll(fs, i + 1, r.resolved)

\* addFile, with the loop over the file's dependencies
RECURSIVE addFile(_, _)
RECURSIVE addDependencies(_, _, _)
\* as addFile, but not adding the file's dependencies
addFile_M(fd, fds) ==
    IF fd.name \in DOMAIN fds.files
    THEN IF fds.files[fd.name] # fd
         THEN [fds EXCEPT !.err = "multiple copies"]
         ELSE fds
    ELSE [fds EXCEPT !.files = (fd.name :> fd) @@ @]

addFile(fd, fds) ==
    IF fd.name \in DOMAIN fds.files
    THEN IF fds.files[fd.name] # fd
         THEN [fds EXCEPT !.err = "multiple copies"]
         ELSE fds
    ELSE addDependencies(fd.deps, 1, [fds EXCEPT !.files = (fd.name :> fd) @@ @])

addDependencies(deps, i, fds) ==
    IF i > Len(deps) THEN fds
    ELSE LET r == addFile(deps[i], fds)
         IN  IF r.err # "nil" THEN r ELSE addDependencies(deps, i + 1, r)

\* the loop of DescriptorSourceFromFileDescriptors over the given files
RECURSIVE addAll(_, _, _)
addAll(fs, i, fds) ==
    IF i > Len(fs) THEN fds
    ELSE LET r == addFile(fs[i], fds)
         IN  IF r.err # "nil" THEN r ELSE addAll(fs, i + 1, r)

\* fileSource.GetAllFiles
GetAllFiles(fs) == {fs[n] : n \in DOMAIN fs}

\* desc.FileDescriptor.FindSymbol: the symbols the file itself defines
FileFindSymbol(fd, s) == \E i \in DOMAIN fd.symbols : fd.symbols[i] = s

NoFile == [name |-> "", deps |-> <<>>, symbols |-> <<>>, syntax |-> ""]

\* fileSource.FindSymbol; file is the descriptor's GetFile()
FindSymbol(fs, s) ==
    LET hits == {n \in DOMAIN fs : FileFindSymbol(fs[n], s)}
    IN  IF hits = {} THEN [err |-> "NotFound", file |-> NoFile]
        ELSE [err |-> "nil", file |-> fs[CHOOSE n \in hits : TRUE]]

\* every descriptor a file reaches through GetDependencies
RECURSIVE TransitiveDeps(_)
TransitiveDeps(fd) ==
    UNION {{fd.deps[i]} \cup TransitiveDeps(fd.deps[i]) : i \in DOMAIN fd.deps}

----------------------------------------------------------------------------
\* Schema export

\* getFileDescriptors: the loop over the symbols, from index i
RECURSIVE getFileDescriptorsFrom(_, _, _, _)
getFileDescriptorsFrom(symbols, descSource, i, acc) ==
    IF i > Len(symbols) THEN acc
    ELSE LET d == FindSymbol(descSource, symbols[i])
             fd == d.file
         IN  IF d.err # "nil"
             THEN [filenames |-> <<>>, fds |-> <<>>, err |-> "failed to find descriptor"]
             ELSE getFileDescriptorsFrom(symbols, descSource, i + 1,
                      IF fd.name \in DOMAIN acc.fds THEN acc
                      ELSE [acc EXCEPT !.fds = (fd.name :> fd) @@ @,
                                       !.filenames = Append(@, fd.name)])

NoFileDescriptors == [filenames |-> <<>>, fds |-> <<>>, err |-> "nil"]

\* as getFileDescriptors, but passing over the symbols that do not resolve
getFileDescriptors_M(symbols, descSource) ==
    getFileDescriptorsFrom(
        SelectSeq(symbols, LAMBDA s : FindSymbol(descSource, s).err = "nil"),
        descSource, 1, NoFileDescriptors)

getFileDescriptors(symbols, descSource) ==
    getFileDescriptorsFrom(symbols, descSource, 1, NoFileDescriptors)

RECURSIVE addFilesToSet(_, _, _)
RECURSIVE addDependenciesToSet(_, _, _, _)
\* the loop of addFilesToSet over the file's dependencies
addDependenciesToSet(allFiles, expanded, deps, i) ==
    IF i > Len(deps) THEN [allFiles |-> allFiles, expanded |-> expanded]
    ELSE LET r == addFilesToSet(allFiles, expanded, deps[i])
         IN  addDependenciesToSet(r.allFiles, r.expanded, deps, i + 1)

\* as addFilesToSet, but appending the file before its dependencies
addFilesToSet_Order(allFiles, expanded, fd) ==
    IF fd.name \in expanded THEN [allFiles |-> allFiles, expanded |-> expanded]
    ELSE addDependenciesToSet(Append(allFiles, AsFileDescriptorProto(fd)),
                              expanded \cup {fd.name}, fd.deps, 1)

\* as addFilesToSet, but never recording the file as seen
addFilesToSet_NoSeen(allFiles, expanded, fd) ==
    LET r == addDependenciesToSet(allFiles, expanded, fd.deps, 1)
    IN  [r EXCEPT !.allFiles = Append(@, AsFileDescriptorProto(fd))]

\* as addFilesToSet, but leaving the file's dependencies out
addFilesToSet_NoDeps(allFiles, expanded, fd) ==
    IF fd.name \in expanded THEN [allFiles |-> allFiles, expanded |-> expanded]
    ELSE [allFiles |-> Append(allFiles, AsFileDescriptorProto(fd)),
          expanded |-> expanded \cup {fd.name}]

addFilesToSet(allFiles, expanded, fd) ==
    IF fd.name \in expanded THEN [allFiles |-> allFiles, expanded |-> expanded]
    ELSE LET r == addDependenciesToSet(allFiles, expanded \cup {fd.name}, fd.deps, 1)
         IN  [r EXCEPT !.allFiles = Append(@, AsFileDescriptorProto(fd))]

RECURSIVE addFilesToFileDescriptorList(_, _, _)
RECURSIVE addDependenciesToList(_, _, _, _)
\* the loop of addFilesToFileDescriptorList over the file's dependencies
addDependenciesToList(allFiles, expanded, deps, i) ==
    IF i > Len(deps) THEN [allFiles |-> allFiles, expanded |-> expanded]
    ELSE LET r == addFilesToFileDescriptorList(allFiles, expanded, deps[i])
         IN  addDependenciesToList(r.allFiles, r.expanded, deps, i + 1)

addFilesToFileDescriptorList(allFiles, expanded, fd) ==
    IF fd.name \in expanded THEN [allFiles |-> allFiles, expanded |-> expanded]
    ELSE LET r == addDependenciesToList(allFiles, expanded \cup {fd.name}, fd.deps, 1)
         IN  [r EXCEPT !.allFiles = Append(@, fd)]

\* the loop of WriteProtoset over the files of the symbols
RECURSIVE expandToSet(_, _, _, _)
expandToSet(g, i, allFiles, expanded) ==
    IF i > Len(g.filenames) THEN allFiles
    ELSE LET r == addFilesToSet(allFiles, expanded, g.fds[g.filenames[i]])
         IN  expandToSet(g, i + 1, r.allFiles, r.expanded)

\* the loop of WriteProtoFiles over the files of the symbols
RECURSIVE expandToList(_, _, _, _)
expandToList(g, i, allFiles, expanded) ==
    IF i > Len(g.filenames) THEN allFiles
    ELSE LET r == addFilesToFileDescriptorList(allFiles, expanded, g.fds[g.filenames[i]])
         IN  expandToList(g, i + 1, r.allFiles, r.expanded)

\* wire form of one file of a set: a record opens with its name; the syntax
\* field is left out when it has the default value
EncodeFile(fp) ==
    <<[tag |-> "name", val |-> fp.name]>>
    \o [i \in 1..Len(fp.dependency) |-> [tag |-> "dependency", val |-> fp.dependency[i]]]
    \o [i \in 1..Len(fp.symbols) |-> [tag |-> "symbol", val |-> fp.symbols[i]]]
    \o (IF fp.syntax = "proto2" THEN <<>> ELSE <<[tag |-> "syntax", val |-> fp.syntax]>>)

\* proto.Marshal of a FileDescriptorSet
RECURSIVE MarshalSet(_)
MarshalSet(fs) == IF fs = <<>> THEN <<>> ELSE EncodeFile(Head(fs)) \o MarshalSet(Tail(fs))

\* a field read into the file record it belongs to
DecodeField(fp, t) ==
    CASE t.tag = "dependency" -> [fp EXCEPT !.dependency = Append(@, t.val)]
      [] t.tag = "symbol" -> [fp EXCEPT !.symbols = Append(@, t.val)]
      [] OTHER -> [fp EXCEPT !.syntax = t.val]

\* proto.Unmarshal into a FileDescriptorSet
RECURSIVE UnmarshalSet(_)
UnmarshalSet(b) ==
    IF b = <<>> THEN <<>>
    ELSE LET t == b[Len(b)]
             front == UnmarshalSet(SubSeq(b, 1, Len(b) - 1))
         IN  IF t.tag = "name"
             THEN Append(front, [name |-> t.val, dependency |-> <<>>,
                                 symbols |-> <<>>, syntax |-> "proto2"])
             ELSE [front EXCEPT ![Len(front)] = DecodeField(@, t)]

\* filepath.Dir of a file's name
Dir(n) == IF n = "c.proto" THEN "." ELSE "pkg"

\* what the loop of WriteProtoFiles leaves in the output directory
PathsOf(fds) ==
    UNION {{<<"dir", Dir(fds[i].name)>>, <<"file", fds[i].name>>} : i \in DOMAIN fds}

----------------------------------------------------------------------------
\* The server-reflection source

\* statuses with which a server answers a reflection RPC
Answers == {"OK", "Unimplemented", "Unavailable", "NotFound"}

\* the error the reflection client returns for an RPC answered so
ClientErr(answer) == IF answer = "OK" THEN "nil" ELSE answer

\* as reflectionSupport, but handing every error on as it is
reflectionSupport_M(err) == err

reflectionSupport(err) ==
    IF err = "nil" THEN "nil"
    ELSE IF err = "Unimplemented" THEN "ErrReflectionNotSupported"
    ELSE err

\* an operation of the source that ended with the server's answer to its
\* last reflection RPC and returned err
ServerOp(op, answer, err) ==
    /\ variant = "server"
    /\ dpc = "ready"
    /\ lastOp' = [op |-> op, answer |-> answer]
    /\ lastErr' = err
    /\ unimplSeen' = (unimplSeen \/ answer = "Unimplemented")
    /\ UNCHANGED <<variant, fdset, given, dpc, derr, files, wop, wsyms, werr,
                   out, created, orig>>
    /\ UNCHANGED <<rpcVars, parserVars, laterVars>>

serverSource_ListServices ==
    \E answer \in Answers :
        ServerOp("ListServices", answer, reflectionSupport(ClientErr(answer)))

\* defined: the file the server sent defines the symbol
serverSource_FindSymbol ==
    \E answer \in Answers, defined \in BOOLEAN :
        ServerOp("FindSymbol", answer,
                 IF ClientErr(answer) # "nil" THEN reflectionSupport(ClientErr(answer))
                 ELSE IF ~defined THEN "NotFound"
                 ELSE "nil")

\* numbers: the answer to AllExtensionNumbersForType; ext: the answer to the
\* ResolveExtension that ended the loop (OK when every extension resolved)
serverSource_AllExtensionsForType ==
    \E numbers \in Answers, ext \in Answers :
        IF ClientErr(numbers) # "nil"
        THEN ServerOp("AllExtensionsForType", numbers, reflectionSupport(ClientErr(numbers)))
        ELSE ServerOp("AllExtensionsForType", ext, reflectionSupport(ClientErr(ext)))

----------------------------------------------------------------------------
\* Building a source, exporting from it, loading the export

\* how a constructor that stopped with err leaves the program
Built(err) ==
    IF err = "nil" THEN "ready"
    ELSE IF err = "stack overflow" THEN "crashed"
    ELSE "failed"

DescriptorSourceFromFileDescriptorSet ==
    /\ variant = "protoset"
    /\ dpc = "new"
    /\ LET r == resolveAll(fdset, 1, <<>>)
       IN  /\ derr' = r.err
           /\ dpc' = Built(r.err)
           /\ files' = IF r.err = "nil" THEN r.resolved ELSE <<>>
    /\ UNCHANGED <<variant, fdset, given, wop, wsyms, werr, out, created, orig,
                   unimplSeen, lastOp, lastErr>>
    /\ UNCHANGED <<rpcVars, parserVars, laterVars>>

DescriptorSourceFromFileDescriptors ==
    /\ variant = "files"
    /\ dpc = "new"
    /\ LET r == addAll(given, 1, [files |-> <<>>, err |-> "nil"])
       IN  /\ derr' = r.err
           /\ dpc' = Built(r.err)
           /\ files' = IF r.err = "nil" THEN r.files ELSE <<>>
    /\ UNCHANGED <<variant, fdset, given, wop, wsyms, werr, out, created, orig,
                   unimplSeen, lastOp, lastErr>>
    /\ UNCHANGED <<rpcVars, parserVars, laterVars>>

\* a run of the program exports once, to a protoset or to proto files
WriteProtoset ==
    /\ variant \in {"protoset", "files"}
    /\ dpc = "ready"
    /\ wop = "none"
    /\ \E symbols \in SeqsUpTo(Symbols, MaxSyms) :
          LET g == getFileDescriptors(symbols, files)
          IN  /\ wsyms' = symbols
              /\ werr' = g.err
              /\ out' = IF g.err # "nil" THEN out
                        ELSE out \o MarshalSet(expandToSet(g, 1, <<>>, {}))
    /\ wop' = "WriteProtoset"
    /\ UNCHANGED <<variant, fdset, given, dpc, derr, files, created, orig,
                   unimplSeen, lastOp, lastErr>>
    /\ UNCHANGED <<rpcVars, parserVars, laterVars>>

WriteProtoFiles ==
    /\ variant \in {"protoset", "files"}
    /\ dpc = "ready"
    /\ wop = "none"
    /\ \E symbols \in SeqsUpTo(Symbols, MaxSyms) :
          LET g == getFileDescriptors(symbols, files)
          IN  /\ wsyms' = symbols
              /\ werr' = g.err
              /\ created' = IF g.err # "nil" THEN created
                            ELSE created \cup PathsOf(expandToList(g, 1, <<>>, {}))
    /\ wop' = "WriteProtoFiles"
    /\ UNCHANGED <<variant, fdset, given, dpc, derr, files, out, orig,
                   unimplSeen, lastOp, lastErr>>
    /\ UNCHANGED <<rpcVars, parserVars, laterVars>>

\* the written protoset loaded as a descriptor source of its own
DescriptorSourceFromProtoSets ==
    /\ wop = "WriteProtoset"
    /\ werr = "nil"
    /\ LET fs == UnmarshalSet(out)
           r == resolveAll(fs, 1, <<>>)
       IN  /\ fdset' = fs
           /\ derr' = r.err
           /\ dpc' = Built(r.err)
           /\ files' = IF r.err = "nil" THEN r.resolved ELSE <<>>
    /\ orig' = files
    /\ variant' = "protoset"
    /\ wop' = "Reloaded"
    /\ UNCHANGED <<given, wsyms, werr, out, created, unimplSeen, lastOp, lastErr>>
    /\ UNCHANGED <<rpcVars, parserVars, laterVars>>

InitDesc ==
    /\ RpcIdle
    /\ ParserIdle
    /\ LaterIdle
    /\ variant \in {"protoset", "files", "server"}
    /\ fdset \in (IF variant = "protoset" THEN FileDescriptorSets ELSE {<<>>})
    /\ given \in (IF variant = "files" THEN GivenLists ELSE {<<>>})
    /\ dpc = IF variant = "server" THEN "ready" ELSE "new"
    /\ derr = "nil"
    /\ files = <<>>
    /\ wop = "none"
    /\ wsyms = <<>>
    /\ werr = "nil"
    /\ out = <<>>
    /\ created = {}
    /\ orig = <<>>
    /\ unimplSeen = FALSE
    /\ lastOp = [op |-> "none", answer |-> "none"]
    /\ lastErr = "nil"

NextDesc ==
    \/ DescriptorSourceFromFileDescriptorSet
    \/ DescriptorSourceFromFileDescriptors
    \/ serverSource_ListServices
    \/ serverSource_FindSymbol
    \/ serverSource_AllExtensionsForType
    \/ WriteProtoset
    \/ WriteProtoFiles
    \/ DescriptorSourceFromProtoSets

SpecDesc == InitDesc /\ [][NextDesc]_vars

----------------------------------------------------------------------------
\* Properties of the descriptor sources and of the schema export

\* the source is one of the two file-backed variants and has been built
FileBacked == variant \in {"protoset", "files"} /\ dpc = "ready"

\* the file list WriteProtoset wrote, read back from the output
Written == UnmarshalSet(out)

\* WriteProtoset has run on the source and succeeded
Exported == wop = "WriteProtoset" /\ werr = "nil"

\* the dependency lists a set declares, file by file
DeclaredDeps(fs) ==
    [n \in FileNames |->
        IF n \in DOMAIN Unresolved(fs) THEN Unresolved(fs)[n].dependency ELSE <<>>]

C12_TopologicalOrder ==
    Exported =>
        \A i \in DOMAIN Written :
            /\ \A k \in DOMAIN Written[i].dependency :
                  \E j \in 1..(i - 1) : Written[j].name = Written[i].dependency[k]
            /\ \A d \in TransitiveDeps(files[Written[i].name]) :
                  \E j \in 1..(i - 1) : Written[j].name = d.name

\* a file written after a dependency it reaches only through another file
C12_Witness ==
    /\ Exported
    /\ \E i \in DOMAIN Written :
          /\ Len(Written[i].dependency) = 1
          /\ Cardinality(TransitiveDeps(files[Written[i].name])) = 2

\* the files that define the requested symbols, with all they depend on
Requested ==
    UNION {{FindSymbol(files, wsyms[i]).file}
               \cup TransitiveDeps(FindSymbol(files, wsyms[i]).file) : i \in DOMAIN wsyms}

\* C13: WriteProtoset writes exactly the files that define the requested
\* symbols and their transitive dependencies, each of them once.
C13_ExactlyTheClosure ==
    Exported =>
        /\ {Written[i] : i \in DOMAIN Written} = {AsFileDescriptorProto(d) : d \in Requested}
        /\ \A i, j \in DOMAIN Written : Written[i].name = Written[j].name => i = j

\* two symbols of one file, which reaches a third file along two paths
C13_Witness ==
    /\ Exported
    /\ wsyms = <<"a.Svc", "a.Msg">>
    /\ Len(Written) = 3
    /\ Len(files["pkg/a.proto"].deps) = 2
    /\ \E i \in DOMAIN files["pkg/a.proto"].deps : files["pkg/a.proto"].deps[i].deps # <<>>

\* C14: loading what WriteProtoset wrote as a protoset source succeeds, and
\* every requested symbol resolves there to a descriptor equal to the one of
\* the source the export was made from.
C14_RoundTrip ==
    wop = "Reloaded" =>
        /\ dpc = "ready"
        /\ \A i \in DOMAIN wsyms :
              /\ FindSymbol(files, wsyms[i]).err = "nil"
              /\ FindSymbol(files, wsyms[i]).file = FindSymbol(orig, wsyms[i]).file

\* an export of part of a source, with a dependency, loaded again
C14_Witness ==
    /\ wop = "Reloaded"
    /\ wsyms # <<>>
    /\ Cardinality(DOMAIN files) = 2
    /\ Cardinality(DOMAIN orig) = 3

\* C15: when a requested symbol does not resolve, the export returns an error
\* and has written no byte and created no directory or file, also when
\* other requested symbols resolve.
C15_NoOutputOnUnresolved ==
    (/\ wop \in {"WriteProtoset", "WriteProtoFiles"}
     /\ \E i \in DOMAIN wsyms : FindSymbol(files, wsyms[i]).err # "nil")
        => (werr # "nil" /\ out = <<>> /\ created = {})

C15_Witness ==
    /\ wop = "WriteProtoFiles"
    /\ Len(wsyms) = 2
    /\ FindSymbol(files, wsyms[1]).err = "nil"
    /\ FindSymbol(files, wsyms[2]).err # "nil"
    /\ werr # "nil"

\* C16: in a file-backed source, the file of every symbol FindSymbol resolves
\* is among the files GetAllFiles returns, with all its direct and
\* transitive dependencies.
C16_ClosedUnderDependencies ==
    FileBacked =>
        \A s \in Symbols :
            LET d == FindSymbol(files, s)
            IN  d.err = "nil" =>
                    /\ d.file \in GetAllFiles(files)
                    /\ TransitiveDeps(d.file) \subseteq GetAllFiles(files)

\* a source built from one given descriptor that brings two more along
C16_Witness ==
    /\ variant = "files"
    /\ dpc = "ready"
    /\ Len(given) = 1
    /\ Cardinality(GetAllFiles(files)) = 3
    /\ \E s \in Symbols : Cardinality(TransitiveDeps(FindSymbol(files, s).file)) = 2

\* C17: building a protoset source always ends by returning; when the
\* dependencies the set declares form a cycle it ends with an error and no
\* source.
C17_CyclesDetected ==
    /\ dpc # "crashed"
    /\ (/\ variant = "protoset"
        /\ dpc # "new"
        /\ \E n \in FileNames : OnCycle(DeclaredDeps(fdset), n))
          => (dpc = "failed" /\ files = <<>>)

----------------------------------------------------------------------------
\* Request parsers

\* what a JSON input is made of: an object that fits the request type, an
\* object the unmarshaler rejects, text that is not JSON, white space
JSONTokens == {"obj", "unk", "bad", "ws"}

\* the ASCII record separator
textSeparatorChar == "RS"

\* what a text input is made of: text of a field, text that does not parse,
\* the separator
TextBytes == {"m", "x", textSeparatorChar}

\* the decoder skips the white space before a value
RECURSIVE SkipSpace(_)
SkipSpace(in) ==
    IF in # <<>> /\ Head(in) = "ws" THEN SkipSpace(Tail(in)) ELSE in

\* json.Decoder.Decode into a json.RawMessage; the decoder keeps the error
\* it stopped with
Decode(f) ==
    LET in == SkipSpace(f.unread)
    IN  IF f.err # "nil" THEN [f |-> f, err |-> f.err, msg |-> ""]
        ELSE IF in = <<>>
        THEN [f |-> [f EXCEPT !.unread = in, !.err = "EOF"], err |-> "EOF", msg |-> ""]
        ELSE IF Head(in) = "bad"
        THEN [f |-> [f EXCEPT !.unread = in, !.err = "SyntaxError"],
              err |-> "SyntaxError", msg |-> ""]
        ELSE [f |-> [f EXCEPT !.unread = Tail(in)], err |-> "nil", msg |-> Head(in)]

\* jsonpb.Unmarshaler.Unmarshal of one value
UnmarshalJSON(msg) == IF msg = "obj" THEN "nil" ELSE "UnmarshalError"

jsonRequestParser_Next(f) ==
    LET d == Decode(f)
    IN  IF d.err # "nil" THEN [f |-> d.f, err |-> d.err, m |-> d.msg]
        ELSE [f |-> [d.f EXCEPT !.requestCount = @ + 1],
              err |-> UnmarshalJSON(d.msg), m |-> d.msg]

\* bufio.Reader.ReadBytes: up to and with the delimiter, or the rest of the
\* input and io.EOF
ReadBytes(in, delim) ==
    IF \E i \in DOMAIN in : in[i] = delim
    THEN LET i == CHOOSE i \in DOMAIN in :
                      in[i] = delim /\ \A j \in 1..(i - 1) : in[j] # delim
         IN  [b |-> SubSeq(in, 1, i), unread |-> SubSeq(in, i + 1, Len(in)), err |-> "nil"]
    ELSE [b |-> in, unread |-> <<>>, err |-> "EOF"]

\* proto.UnmarshalText of one record
UnmarshalText(b) ==
    IF \E i \in DOMAIN b : b[i] = "x" THEN "ParseError" ELSE "nil"

\* remove delimiter
Trimmed(b) ==
    IF Len(b) > 0 /\ b[Len(b)] = textSeparatorChar THEN SubSeq(b, 1, Len(b) - 1) ELSE b

\* as textRequestParser.Next, but forgetting the reader's error once it has
\* been returned
textRequestParser_Next_NoLatch(f) ==
    LET r == ReadBytes(f.unread, textSeparatorChar)
    IN  IF f.err # "nil" THEN [f |-> [f EXCEPT !.err = "nil"], err |-> f.err, m |-> <<>>]
        ELSE [f |-> [unread |-> r.unread, err |-> r.err, requestCount |-> f.requestCount + 1],
              err |-> UnmarshalText(Trimmed(r.b)), m |-> Trimmed(r.b)]

\* as textRequestParser.Next, but taking an empty last record for the end
textRequestParser_Next_NoEmpty(f) ==
    LET r == ReadBytes(f.unread, textSeparatorChar)
    IN  IF f.err # "nil" THEN [f |-> f, err |-> f.err, m |-> <<>>]
        ELSE IF r.err = "EOF" /\ r.b = <<>>
        THEN [f |-> [f EXCEPT !.unread = r.unread, !.err = r.err], err |-> r.err, m |-> <<>>]
        ELSE [f |-> [unread |-> r.unread, err |-> r.err, requestCount |-> f.requestCount + 1],
              err |-> UnmarshalText(Trimmed(r.b)), m |-> Trimmed(r.b)]

textRequestParser_Next(f) ==
    LET r == ReadBytes(f.unread, textSeparatorChar)
    IN  IF f.err # "nil" THEN [f |-> f, err |-> f.err, m |-> <<>>]
        ELSE IF r.err # "nil" /\ r.err # "EOF"
        THEN [f |-> [f EXCEPT !.unread = r.unread, !.err = r.err], err |-> r.err, m |-> <<>>]
        ELSE [f |-> [unread |-> r.unread, err |-> r.err, requestCount |-> f.requestCount + 1],
              err |-> UnmarshalText(Trimmed(r.b)), m |-> Trimmed(r.b)]

\* the parser as one value
Parser == [unread |-> unread, err |-> perr, requestCount |-> requestCount]

\* a call of Next that returned r
Called(r) ==
    /\ Len(results) < MaxCalls
    /\ unread' = r.f.unread
    /\ perr' = r.f.err
    /\ requestCount' = r.f.requestCount
    /\ results' = Append(results, r.err)
    /\ msgs' = IF r.err = "nil" THEN Append(msgs, r.m) ELSE msgs
    /\ UNCHANGED <<format, input>>
    /\ UNCHANGED <<rpcVars, descVars, laterVars>>

NextJSON == format = "json" /\ Called(jsonRequestParser_Next(Parser))

NextText == format = "text" /\ Called(textRequestParser_Next(Parser))

\* NewJSONRequestParser, NewTextRequestParser
InitParse ==
    /\ RpcIdle
    /\ DescIdle
    /\ LaterIdle
    /\ format \in {"json", "text"}
    /\ input \in SeqsUpTo(IF format = "json" THEN JSONTokens ELSE TextBytes, MaxInput)
    /\ unread = input
    /\ perr = "nil"
    /\ requestCount = 0
    /\ results = <<>>
    /\ msgs = <<>>

NextParse == NextJSON \/ NextText

SpecParse == InitParse /\ [][NextParse]_vars

----------------------------------------------------------------------------
\* Properties of the request parsers

\* a call of Next has returned io.EOF
EOFReturned == \E i \in DOMAIN results : results[i] = "EOF"

\* the calls of Next made before the first that returned io.EOF
BeforeEOF ==
    (CHOOSE i \in DOMAIN results :
        results[i] = "EOF" /\ \A j \in 1..(i - 1) : results[j] # "EOF") - 1

\* how many elements of seq are in S
Count(seq, S) == Cardinality({i \in DOMAIN seq : seq[i] \in S})

\* C18: up to the end of input, a text input with k separators takes k+1
\* calls of Next, each a message when every record parses (an empty last
\* record is an empty message); a JSON input of n values takes n calls,
\* each a message but for the values the unmarshaler rejects.
C18_MessageCount ==
    EOFReturned =>
        /\ format = "text" =>
              /\ BeforeEOF = Count(input, {textSeparatorChar}) + 1
              /\ Count(input, {"x"}) = 0 =>
                    /\ Len(msgs) = Count(input, {textSeparatorChar}) + 1
                    /\ (input = <<>> \/ Last(input) = textSeparatorChar)
                          => Last(msgs) = <<>>
        /\ format = "json" =>
              /\ BeforeEOF = Count(input, {"obj", "unk"})
              /\ Len(msgs) = Count(input, {"obj"})

\* a record and a trailing separator: two messages, the second one empty
C18_Witness ==
    /\ format = "text"
    /\ input = <<"m", textSeparatorChar>>
    /\ results = <<"nil", "nil", "EOF">>
    /\ msgs = <<(<<"m">>), <<>>>>

\* C19: once Next has returned io.EOF, every later call returns io.EOF,
\* yields no message and leaves NumRequests as it was.
C19_EOFIsFinal ==
    [][EOFReturned =>
          /\ results' = Append(results, "EOF")
          /\ msgs' = msgs
          /\ requestCount' = requestCount]_vars

\* two calls after the end of a text input
C19_Witness ==
    /\ format = "text"
    /\ Len(results) >= 3
    /\ results[Len(results) - 1] = "EOF"
    /\ Last(results) = "EOF"
    /\ Len(msgs) = Len(results) - 2

\* C20: NumRequests is the number of calls of Next that returned a message;
\* calls that returned io.EOF or a parse error do not count.
C20_CountsReturnedMessages ==
    /\ requestCount = Count(results, {"nil"})
    /\ requestCount = Len(msgs)

----------------------------------------------------------------------------
\* Text formatter

\* a message is the sequence of its fields; <<"bad">> holds a value the text
\* marshaler rejects
Messages == SeqsUpTo({"m"}, MaxFields) \cup {<<"bad">>}

\* MarshalTextIndent: one line for each field
RECURSIVE TextOf(_)
TextOf(m) == IF m = <<>> THEN <<>> ELSE <<Head(m), "NL">> \o TextOf(Tail(m))

MarshalTextIndent(m) ==
    IF \E i \in DOMAIN m : m[i] = "bad" THEN [b |-> <<>>, err |-> "MarshalError"]
    ELSE [b |-> TextOf(m), err |-> "nil"]

\* as textFormatter.format, but writing the separator before the first
\* message too
textFormatter_format_M(tf, m) ==
    LET buf0 == IF tf.useSeparator /\ tf.numFormatted >= 0
                THEN <<textSeparatorChar>> ELSE <<>>
        mt == MarshalTextIndent(m)
        buf == buf0 \o mt.b
    IN  IF mt.err # "nil" THEN [tf |-> tf, str |-> <<>>, err |-> mt.err]
        ELSE IF buf = <<>> THEN [tf |-> tf, str |-> <<>>, err |-> "panic"]
        ELSE [tf |-> [tf EXCEPT !.numFormatted = @ + 1],
              str |-> IF buf[Len(buf)] = "NL" THEN SubSeq(buf, 1, Len(buf) - 1) ELSE buf,
              err |-> "nil"]

\* textFormatter.format; str[len(str)-1] of an empty string is an index out
\* of range, a run-time panic
textFormatter_format(tf, m) ==
    LET buf0 == IF tf.useSeparator /\ tf.numFormatted > 0
                THEN <<textSeparatorChar>> ELSE <<>>
        mt == MarshalTextIndent(m)
        buf == buf0 \o mt.b
    IN  IF mt.err # "nil" THEN [tf |-> tf, str |-> <<>>, err |-> mt.err]
        ELSE IF buf = <<>> THEN [tf |-> tf, str |-> <<>>, err |-> "panic"]
        ELSE [tf |-> [tf EXCEPT !.numFormatted = @ + 1],
              str |-> IF buf[Len(buf)] = "NL" THEN SubSeq(buf, 1, Len(buf) - 1) ELSE buf,
              err |-> "nil"]

\* the formatter as one value
Formatter == [useSeparator |-> useSeparator, numFormatted |-> numFormatted]

\* the strings the formatter returned, one after the other
RECURSIVE Output(_)
Output(log) ==
    IF log = <<>> THEN <<>>
    ELSE (IF Head(log).err = "nil" THEN Head(log).str ELSE <<>>) \o Output(Tail(log))

\* the message a text holds: line ends are white space
MessageOf(b) == SelectSeq(b, LAMBDA c : c # "NL")

\* one message is formatted
Format ==
    /\ fpc = "formatting"
    /\ pending # <<>>
    /\ LET r == textFormatter_format(Formatter, Head(pending))
       IN  /\ numFormatted' = r.tf.numFormatted
           /\ formatted' = Append(formatted, [m |-> Head(pending), str |-> r.str, err |-> r.err])
           /\ fpc' = IF r.err = "panic" THEN "panicked" ELSE fpc
    /\ pending' = Tail(pending)
    /\ UNCHANGED <<useSeparator, reader, readBack>>
    /\ UNCHANGED fmtRest

\* NewTextRequestParser on what has been written
Feed ==
    /\ fpc = "formatting"
    /\ pending = <<>>
    /\ reader' = [unread |-> Output(formatted), err |-> "nil", requestCount |-> 0]
    /\ fpc' = "reading"
    /\ UNCHANGED <<useSeparator, numFormatted, pending, formatted, readBack>>
    /\ UNCHANGED fmtRest

\* a call of Next on that parser, until it returns an error
ReadBack ==
    /\ fpc = "reading"
    /\ LET r == textRequestParser_Next(reader)
       IN  /\ reader' = r.f
           /\ readBack' = Append(readBack, [m |-> MessageOf(r.m), err |-> r.err])
           /\ fpc' = IF r.err = "nil" THEN fpc ELSE "done"
    /\ UNCHANGED <<useSeparator, numFormatted, pending, formatted>>
    /\ UNCHANGED fmtRest

\* NewTextFormatter, and the messages it will be given
InitFormat ==
    /\ RpcIdle
    /\ DescIdle
    /\ ParserIdle
    /\ HdrIdle
    /\ MainIdle
    /\ BankIdle
    /\ ChatIdle
    /\ useSeparator \in BOOLEAN
    /\ numFormatted = 0
    /\ pending \in SeqsUpTo(Messages, MaxMsgs)
    /\ formatted = <<>>
    /\ fpc = "formatting"
    /\ reader = [unread |-> <<>>, err |-> "nil", requestCount |-> 0]
    /\ readBack = <<>>

NextFormat == Format \/ Feed \/ ReadBack

SpecFormat == InitFormat /\ [][NextFormat]_vars

----------------------------------------------------------------------------
\* Properties of the text formatter

\* the calls of the formatter that returned a string
Succeeded == {i \in DOMAIN formatted : formatted[i].err = "nil"}

HasSeparator(str) == \E k \in DOMAIN str : str[k] = textSeparatorChar

\* C21: with includeSeparator, every message formatted after the first one
\* starts with the separator and the first one does not; without it, no
\* message formatted holds a separator
C21_SeparatorBeforeAllButFirst ==
    \A i \in Succeeded :
        LET str == formatted[i].str
            first == \A j \in Succeeded : i <= j
        IN  /\ (useSeparator /\ ~first) => (str # <<>> /\ Head(str) = textSeparatorChar)
            /\ (useSeparator /\ first) => ~HasSeparator(str)
            /\ ~useSeparator => ~HasSeparator(str)

C21_Witness ==
    /\ useSeparator
    /\ \E i, j, k \in DOMAIN formatted :
          /\ i < j /\ j < k
          /\ formatted[i].err = "nil"
          /\ formatted[j].err = "MarshalError"
          /\ formatted[k].err = "nil" /\ Head(formatted[k].str) = textSeparatorChar

\* C22: formatting messages the marshaler accepts never fails, and reading
\* the output of a formatter with separators back gives those messages, in
\* order, and then the end of the input
C22_RoundTrip ==
    (useSeparator /\ \A i \in DOMAIN formatted : formatted[i].m # <<"bad">>)
        => /\ \A i \in DOMAIN formatted : formatted[i].err = "nil"
           /\ fpc = "done" =>
                /\ Len(formatted) >= 1 =>
                     readBack = [i \in 1..(Len(formatted) + 1) |->
                                    IF i <= Len(formatted)
                                    THEN [m |-> formatted[i].m, err |-> "nil"]
                                    ELSE [m |-> <<>>, err |-> "EOF"]]

----------------------------------------------------------------------------
\* Header expansion

\* what a header is made of: the opening of a token, a closing brace, a
\* character a variable name may hold
HeaderUnits == {"${", "}", "A"}

\* names of variables and what the environment may give them: nothing, a
\* word, a token
VarNames == {<<"A">>, <<"A", "A">>}

VarValues == {<<>>, <<"A">>, <<"${", "A", "}">>}

Environments == UNION {[D -> VarValues] : D \in SUBSET VarNames}

\* header lists written as one text, "|" between two headers
RECURSIVE SplitHeaders(_, _)
SplitHeaders(text, cur) ==
    IF text = <<>> THEN <<cur>>
    ELSE IF Head(text) = "|" THEN <<cur>> \o SplitHeaders(Tail(text), <<>>)
    ELSE SplitHeaders(Tail(text), Append(cur, Head(text)))

HeaderLists == {SplitHeaders(t, <<>>) : t \in SeqsUpTo(HeaderUnits \cup {"|"}, MaxHeaderText)}

\* the name of the complete token s starts with, <<>> when it starts with none
RECURSIVE NameAt(_, _)
NameAt(s, i) ==
    IF i > Len(s) THEN <<>>
    ELSE IF s[i] = "A" THEN NameAt(s, i + 1)
    ELSE IF s[i] = "}" /\ i > 2 THEN SubSeq(s, 2, i - 1)
    ELSE <<>>

TokenAt(s) == IF s # <<>> /\ Head(s) = "${" THEN NameAt(s, 2) ELSE <<>>

\* as expandHeader, but a variable that is not defined expands to nothing
RECURSIVE expandHeader_M(_, _)
expandHeader_M(s, E) ==
    IF s = <<>> THEN [out |-> <<>>, err |-> "nil"]
    ELSE LET name == TokenAt(s)
         IN  IF name = <<>>
             THEN LET r == expandHeader_M(Tail(s), E)
                  IN  [out |-> <<Head(s)>> \o r.out, err |-> r.err]
             ELSE LET r == expandHeader_M(SubSeq(s, Len(name) + 3, Len(s)), E)
                  IN  [out |-> (IF name \in DOMAIN E THEN E[name] ELSE <<>>) \o r.out,
                       err |-> r.err]

\* as expandHeader, but keeping the braces around the value
RECURSIVE expandHeader_Braces(_, _)
expandHeader_Braces(s, E) ==
    IF s = <<>> THEN [out |-> <<>>, err |-> "nil"]
    ELSE LET name == TokenAt(s)
         IN  IF name = <<>>
             THEN LET r == expandHeader_Braces(Tail(s), E)
                  IN  [out |-> <<Head(s)>> \o r.out, err |-> r.err]
             ELSE IF name \notin DOMAIN E
             THEN [out |-> <<>>, err |-> "missing environment variable"]
             ELSE LET r == expandHeader_Braces(SubSeq(s, Len(name) + 3, Len(s)), E)
                  IN  [out |-> <<"${">> \o E[name] \o <<"}">> \o r.out, err |-> r.err]

\* one header: every complete token, from left to right, becomes the value
\* of its variable
RECURSIVE expandHeader(_, _)
expandHeader(s, E) ==
    IF s = <<>> THEN [out |-> <<>>, err |-> "nil"]
    ELSE LET name == TokenAt(s)
         IN  IF name = <<>>
             THEN LET r == expandHeader(Tail(s), E)
                  IN  [out |-> <<Head(s)>> \o r.out, err |-> r.err]
             ELSE IF name \notin DOMAIN E
             THEN [out |-> <<>>, err |-> "missing environment variable"]
             ELSE LET r == expandHeader(SubSeq(s, Len(name) + 3, Len(s)), E)
                  IN  [out |-> E[name] \o r.out, err |-> r.err]

\* ExpandHeaders: the expanded list, or an error and no list
RECURSIVE ExpandHeaders(_, _)
ExpandHeaders(hs, E) ==
    IF hs = <<>> THEN [headers |-> <<>>, err |-> "nil"]
    ELSE LET r == expandHeader(Head(hs), E)
             rest == ExpandHeaders(Tail(hs), E)
         IN  IF r.err # "nil" THEN [headers |-> <<>>, err |-> r.err]
             ELSE IF rest.err # "nil" THEN rest
             ELSE [headers |-> <<r.out>> \o rest.headers, err |-> "nil"]

\* ExpandHeaders(inHeaders)
Expand ==
    /\ hpc = "new"
    /\ LET r == ExpandHeaders(inHeaders, env)
       IN  /\ outHeaders' = r.headers
           /\ herr' = r.err
    /\ hpc' = "expanded"
    /\ UNCHANGED <<env, inHeaders, outAgain, errAgain>>
    /\ UNCHANGED hdrRest

\* ExpandHeaders(outHeaders)
ExpandAgain ==
    /\ hpc = "expanded"
    /\ herr = "nil"
    /\ LET r == ExpandHeaders(outHeaders, env)
       IN  /\ outAgain' = r.headers
           /\ errAgain' = r.err
    /\ hpc' = "again"
    /\ UNCHANGED <<env, inHeaders, outHeaders, herr>>
    /\ UNCHANGED hdrRest

InitHeaders ==
    /\ RpcIdle
    /\ DescIdle
    /\ ParserIdle
    /\ FmtIdle
    /\ MainIdle
    /\ BankIdle
    /\ ChatIdle
    /\ env \in Environments
    /\ inHeaders \in HeaderLists
    /\ hpc = "new"
    /\ outHeaders = <<>>
    /\ herr = "nil"
    /\ outAgain = <<>>
    /\ errAgain = "nil"

NextHeaders == Expand \/ ExpandAgain

SpecHeaders == InitHeaders /\ [][NextHeaders]_vars

----------------------------------------------------------------------------
\* Properties of header expansion

\* where the complete tokens of s start: "${", a name, "}"
TokenStarts(s) ==
    {i \in DOMAIN s :
        /\ s[i] = "${"
        /\ \E j \in (i + 2)..Len(s) :
              s[j] = "}" /\ \A k \in (i + 1)..(j - 1) : s[k] = "A"}

TokenEnd(s, i) == CHOOSE j \in (i + 2)..Len(s) :
                     s[j] = "}" /\ \A k \in (i + 1)..(j - 1) : s[k] = "A"

TokenName(s, i) == SubSeq(s, i + 1, TokenEnd(s, i) - 1)

\* the variables a header list refers to
Referenced(hs) ==
    UNION {{TokenName(hs[n], i) : i \in TokenStarts(hs[n])} : n \in DOMAIN hs}

\* what position i of s gives to the expanded header
Piece(s, i, E) ==
    IF i \in TokenStarts(s) THEN E[TokenName(s, i)]
    ELSE IF \E t \in TokenStarts(s) : t < i /\ i <= TokenEnd(s, t) THEN <<>>
    ELSE <<s[i]>>

RECURSIVE Pieces(_, _, _)
Pieces(s, i, E) == IF i > Len(s) THEN <<>> ELSE Piece(s, i, E) \o Pieces(s, i + 1, E)

\* C23: when a variable a token names is not defined, ExpandHeaders returns
\* an error and no list; otherwise it returns the list in which every
\* complete token has become the value of its variable (also the empty
\* value) and everything else, an unterminated "${" and a lone "}"
\* included, is as it was
C23_ExpandsCompleteTokens ==
    hpc \in {"expanded", "again"} =>
        IF Referenced(inHeaders) \subseteq DOMAIN env
        THEN /\ herr = "nil"
             /\ outHeaders = [n \in DOMAIN inHeaders |-> Pieces(inHeaders[n], 1, env)]
        ELSE herr # "nil" /\ outHeaders = <<>>

C23_Witness ==
    /\ hpc = "expanded"
    /\ herr = "nil"
    /\ \E n \in DOMAIN inHeaders :
          LET s == inHeaders[n]
          IN  /\ \E i \in TokenStarts(s) : env[TokenName(s, i)] = <<>>
              /\ \E i \in DOMAIN s : s[i] = "${" /\ i \notin TokenStarts(s)
              /\ \E i \in DOMAIN s : s[i] = "}" /\ outHeaders[n] = <<"${", "}">>

PlainValues(E) == \A n \in DOMAIN E : \A k \in DOMAIN E[n] : E[n][k] = "A"

\* every "${" of the list opens a complete token
NoStrayOpening(hs) ==
    \A n \in DOMAIN hs : \A i \in DOMAIN hs[n] :
        hs[n][i] = "${" => i \in TokenStarts(hs[n])

----------------------------------------------------------------------------
\* The command-line program

\* what the command line asks for
Commands == {"help", "version", "list", "describe", "invoke"}

\* codes the final status of an RPC may carry
StatusCodes == {"OK", "NotFound", "Unavailable"}

\* as fail, with the two exit codes exchanged
fail_M(err) == IF err # "nil" THEN 2 ELSE 1

\* fail: the exit code it ends the program with; a nil error means a usage
\* issue
fail(err) == IF err # "nil" THEN 1 ELSE 2

\* os.Exit(code)
exit(code) ==
    /\ cpc' = "exited"
    /\ exitCode' = code

\* a call of fail(err, ...)
Failed(err) ==
    /\ failErr' = err
    /\ exit(fail(err))

\* jsonpb.Marshaler.MarshalToString
Marshaler_MarshalToString(m) ==
    IF \E i \in DOMAIN m : m[i] = "bad" THEN [str |-> <<>>, err |-> "MarshalError"]
    ELSE [str |-> <<"{">> \o m \o <<"}">>, err |-> "nil"]

\* formatDetails: the formatter of the chosen format, applied to m
formatter(m) ==
    IF cformat = "json"
    THEN LET r == Marshaler_MarshalToString(m)
         IN  [tf |-> [useSeparator |-> ~cverbose, numFormatted |-> ctf], str |-> r.str, err |-> r.err]
    ELSE textFormatter_format([useSeparator |-> ~cverbose, numFormatted |-> ctf], m)

\* -help, -version
HelpOrVersion ==
    /\ cpc = "start"
    /\ cmd \in {"help", "version"}
    /\ exit(0)
    /\ UNCHANGED <<cmd, cformat, cverbose, failErr, hstat, respCount, ctf>>
    /\ UNCHANGED mainRest

\* validation of the arguments
Validate ==
    /\ cpc = "start"
    /\ cmd \notin {"help", "version"}
    /\ \E valid \in BOOLEAN :
          IF valid THEN cpc' = "validated" /\ UNCHANGED <<exitCode, failErr>>
          ELSE Failed("nil")
    /\ UNCHANGED <<cmd, cformat, cverbose, hstat, respCount, ctf>>
    /\ UNCHANGED mainRest

\* dial: transport credentials and the connection
Dial ==
    /\ cpc = "validated"
    /\ \E err \in {"nil", "err"} :
          IF err = "nil" THEN cpc' = "dialed" /\ UNCHANGED <<exitCode, failErr>>
          ELSE Failed(err)
    /\ UNCHANGED <<cmd, cformat, cverbose, hstat, respCount, ctf>>
    /\ UNCHANGED mainRest

\* the descriptor source: protoset files, proto files or the server
Source ==
    /\ cpc = "dialed"
    /\ \E err \in {"nil", "err"} :
          IF err = "nil" THEN cpc' = "ready" /\ UNCHANGED <<exitCode, failErr>>
          ELSE Failed(err)
    /\ UNCHANGED <<cmd, cformat, cverbose, hstat, respCount, ctf>>
    /\ UNCHANGED mainRest

\* list or describe, and the return from main
ListOrDescribe ==
    /\ cpc = "ready"
    /\ cmd \in {"list", "describe"}
    /\ \E err \in {"nil", "err"} :
          IF err = "nil" THEN exit(0) /\ UNCHANGED failErr
          ELSE Failed(err)
    /\ UNCHANGED <<cmd, cformat, cverbose, hstat, respCount, ctf>>
    /\ UNCHANGED mainRest

\* handler.OnReceiveResponse; a panic of the formatter ends the program as
\* the Go run time does, with exit code 2
handler_OnReceiveResponse ==
    /\ cpc = "ready"
    /\ cmd = "invoke"
    /\ respCount < MaxMsgs
    /\ respCount' = respCount + 1
    /\ \E m \in Messages :
          LET r == formatter(m)
          IN  /\ ctf' = r.tf.numFormatted
              /\ IF r.err = "nil" THEN UNCHANGED <<cpc, exitCode, failErr>>
                 ELSE IF r.err = "panic" THEN exit(2) /\ UNCHANGED failErr
                 ELSE Failed("err")
    /\ UNCHANGED <<cmd, cformat, cverbose, hstat>>
    /\ UNCHANGED mainRest

\* handler.OnReceiveTrailers, and the return of InvokeRPC
handler_OnReceiveTrailers ==
    /\ cpc = "ready"
    /\ cmd = "invoke"
    /\ \E st \in StatusCodes : hstat' = st
    /\ cpc' = "returned"
    /\ UNCHANGED <<cmd, cformat, cverbose, exitCode, failErr, respCount, ctf>>
    /\ UNCHANGED mainRest

\* InvokeRPC returned an error
InvokeError ==
    /\ cpc = "ready"
    /\ cmd = "invoke"
    /\ Failed("err")
    /\ UNCHANGED <<cmd, cformat, cverbose, hstat, respCount, ctf>>
    /\ UNCHANGED mainRest

\* the end of main after an invocation
AfterInvoke ==
    /\ cpc = "returned"
    /\ IF hstat # "OK" THEN exit(1) ELSE exit(0)
    /\ UNCHANGED <<cmd, cformat, cverbose, failErr, hstat, respCount, ctf>>
    /\ UNCHANGED mainRest

InitMain ==
    /\ RpcIdle
    /\ DescIdle
    /\ ParserIdle
    /\ FmtIdle
    /\ HdrIdle
    /\ BankIdle
    /\ ChatIdle
    /\ cmd \in Commands
    /\ cformat \in {"json", "text"}
    /\ cverbose \in BOOLEAN
    /\ cpc = "start"
    /\ exitCode = "none"
    /\ failErr = "none"
    /\ hstat = "none"
    /\ respCount = 0
    /\ ctf = 0

NextMain ==
    \/ HelpOrVersion
    \/ Validate
    \/ Dial
    \/ Source
    \/ ListOrDescribe
    \/ handler_OnReceiveResponse
    \/ handler_OnReceiveTrailers
    \/ InvokeError
    \/ AfterInvoke

SpecMain == InitMain /\ [][NextMain]_vars

----------------------------------------------------------------------------
\* Properties of the command-line program

\* C25: the exit code is 0 only when nothing failed and, for an invocation,
\* the final status is OK; it is 1 when the final status is not OK or fail
\* was called with an error; it is 2 when fail was called without one
C25_ExitCodes ==
    cpc = "exited" =>
        /\ exitCode = 0 => (failErr = "none" /\ (cmd = "invoke" => hstat = "OK"))
        /\ (hstat \notin {"none", "OK"} \/ failErr = "err") => exitCode = 1
        /\ failErr = "nil" => exitCode = 2

C25_Witness ==
    /\ cpc = "exited"
    /\ exitCode = 1
    /\ hstat = "NotFound"
    /\ respCount >= 2

----------------------------------------------------------------------------
\* Bank demo

\* largest and smallest int32
MaxInt32 == 2147483647

MinInt32 == -MaxInt32 - 1

\* a + b in int32: the sum wraps around
Add32(a, b) ==
    IF a > 0 /\ b > MaxInt32 - a THEN (a + MinInt32) + (b + MinInt32)
    ELSE IF a < 0 /\ b < MinInt32 - a THEN (a - MinInt32) + (b - MinInt32)
    ELSE a + b

\* what the accounts of the database were opened with
InitialDeposits == {0, MaxInt32}

\* AmountCents of a request, up to its sign
Amounts == {0, 1}

\* numbers of the accounts of the initial database; 0 in a Transfer stands
\* for an external source or destination
InitialNumbers == {1, 2}

\* the sequence without its first element equal to x
RECURSIVE Remove(_, _)
Remove(seq, x) ==
    IF seq = <<>> THEN <<>>
    ELSE IF Head(seq) = x THEN Tail(seq)
    ELSE <<Head(seq)>> \o Remove(Tail(seq), x)

Contains(seq, x) == \E i \in DOMAIN seq : seq[i] = x

\* no request: a request that a handler has not taken up yet
NoCall == [op |-> "none", acct |-> 0, dest |-> 0, amount |-> 0, pos |-> "idle",
           srcAcct |-> 0, destAcct |-> 0, err |-> "nil", before |-> <<>>]

\* handler p takes a step that leaves call c
Stepped(p, c) == calls' = [calls EXCEPT ![p] = c]

\* a handler takes up a request when the handlers before it have
Idle(p) == calls[p].pos = "idle" /\ \A q \in 1..(p - 1) : calls[q].pos # "idle"

\* a Transfer, with the accounts as they were when it began
Began(c) == [c EXCEPT !.before = accountHeap]

\* accounts.getAccount, bankServer.getAccount: the account, 0 for none
getAccount(cust, n) ==
    IF cust \in DOMAIN AccountNumbersByCustomer /\ Contains(AccountNumbersByCustomer[cust], n)
    THEN n ELSE 0

\* account.newTransaction
newTransaction(a, amountCents) ==
    LET bal == Add32(a.BalanceCents, amountCents)
    IN  IF bal < 0 THEN [a |-> a, err |-> "FailedPrecondition"]
        ELSE [a |-> [BalanceCents |-> bal, Transactions |-> Append(a.Transactions, amountCents)],
              err |-> "nil"]

\* getCustomer: the customer the requests are authenticated as
Requester == "alice"

ListOf(cust) ==
    IF cust \in DOMAIN AccountNumbersByCustomer THEN AccountNumbersByCustomer[cust] ELSE <<>>

\* accounts.closeAccount: what it leaves of the three indexes, and its error
accounts_closeAccount(cust, n) ==
    LET same == [numbers |-> AccountNumbers, byCustomer |-> AccountNumbersByCustomer,
                 byNumber |-> AccountsByNumber]
    IN  IF ~Contains(ListOf(cust), n) THEN same @@ [err |-> "NotFound"]
        ELSE IF accountHeap[n].BalanceCents # 0 THEN same @@ [err |-> "FailedPrecondition"]
        ELSE [numbers |-> Remove(AccountNumbers, n),
              byCustomer |-> [AccountNumbersByCustomer EXCEPT ![cust] = Remove(@, n)],
              byNumber |-> AccountsByNumber \ {n},
              err |-> "nil"]

\* bankServer.CloseAccount of bank.go: the number leaves AccountNumbers
\* before the balance is looked at
bankServer_CloseAccount(cust, n) ==
    LET same == [numbers |-> AccountNumbers, byCustomer |-> AccountNumbersByCustomer,
                 byNumber |-> AccountsByNumber]
    IN  IF ~Contains(ListOf(cust), n) THEN same @@ [err |-> "NotFound"]
        ELSE IF accountHeap[n].BalanceCents # 0
        THEN [same EXCEPT !.numbers = Remove(AccountNumbers, n)] @@ [err |-> "FailedPrecondition"]
        ELSE [numbers |-> Remove(AccountNumbers, n),
              byCustomer |-> [AccountNumbersByCustomer EXCEPT ![cust] = Remove(@, n)],
              byNumber |-> AccountsByNumber \ {n},
              err |-> "nil"]

\* a request that has been answered
Done(c, err) == [c EXCEPT !.pos = "done", !.err = err]

OpenAccount(p) ==
    /\ Idle(p)
    /\ \E dep \in {-1, 1} :
          LET c == ([NoCall EXCEPT !.op = "OpenAccount", !.amount = dep])
              num == LastAccountNum + 1
          IN  IF dep < 0
              THEN /\ Stepped(p, Done(c, "InvalidArgument"))
                   /\ UNCHANGED <<AccountNumbersByCustomer, AccountsByNumber, AccountNumbers,
                                  Customers, LastAccountNum, accountHeap>>
              ELSE /\ Customers' = IF Requester \in DOMAIN AccountNumbersByCustomer
                                   THEN Customers ELSE Append(Customers, Requester)
                   /\ LastAccountNum' = num
                   /\ AccountNumbers' = Append(AccountNumbers, num)
                   /\ AccountNumbersByCustomer' =
                         (Requester :> Append(ListOf(Requester), num)) @@ AccountNumbersByCustomer
                   /\ accountHeap' = Append(accountHeap,
                                            [BalanceCents |-> dep, Transactions |-> <<dep>>])
                   /\ AccountsByNumber' = AccountsByNumber \cup {num}
                   /\ Stepped(p, Done([c EXCEPT !.acct = num], "nil"))
    /\ UNCHANGED build
    /\ UNCHANGED bankRest

CloseAccount(p) ==
    /\ Idle(p)
    /\ \E n \in InitialNumbers :
          LET c == ([NoCall EXCEPT !.op = "CloseAccount", !.acct = n])
              r == IF build = "bank.go" THEN bankServer_CloseAccount(Requester, n)
                   ELSE accounts_closeAccount(Requester, n)
          IN  /\ AccountNumbers' = r.numbers
              /\ AccountNumbersByCustomer' = r.byCustomer
              /\ AccountsByNumber' = r.byNumber
              /\ Stepped(p, Done(c, r.err))
    /\ UNCHANGED <<build, Customers, LastAccountNum, accountHeap>>
    /\ UNCHANGED bankRest

\* Deposit and Withdraw up to the return of getAccount
Deposit_getAccount(p) ==
    /\ Idle(p)
    /\ \E n \in InitialNumbers, amt \in Amounts :
          LET c == ([NoCall EXCEPT !.op = "Deposit", !.acct = n, !.amount = amt])
              a == getAccount(Requester, n)
          IN  IF amt <= 0 THEN Stepped(p, Done([c EXCEPT !.acct = 0], "InvalidArgument"))
              ELSE IF a = 0 THEN Stepped(p, Done(c, "NotFound"))
              ELSE Stepped(p, [c EXCEPT !.pos = "got", !.destAcct = a])
    /\ UNCHANGED <<build, AccountNumbersByCustomer, AccountsByNumber, AccountNumbers,
                   Customers, LastAccountNum, accountHeap>>
    /\ UNCHANGED bankRest

Withdraw_getAccount(p) ==
    /\ Idle(p)
    /\ \E n \in InitialNumbers, amt \in Amounts :
          LET c == ([NoCall EXCEPT !.op = "Withdraw", !.acct = n, !.amount = -amt])
              a == getAccount(Requester, n)
          IN  IF -amt >= 0 THEN Stepped(p, Done([c EXCEPT !.acct = 0], "InvalidArgument"))
              ELSE IF a = 0 THEN Stepped(p, Done(c, "NotFound"))
              ELSE Stepped(p, [c EXCEPT !.pos = "got", !.srcAcct = a])
    /\ UNCHANGED <<build, AccountNumbersByCustomer, AccountsByNumber, AccountNumbers,
                   Customers, LastAccountNum, accountHeap>>
    /\ UNCHANGED bankRest

\* the rest of Deposit and of Withdraw: newTransaction and the answer
Deposit_newTransaction(p) ==
    /\ calls[p].op = "Deposit"
    /\ calls[p].pos = "got"
    /\ LET r == newTransaction(accountHeap[calls[p].destAcct], calls[p].amount)
       IN  /\ accountHeap' = [accountHeap EXCEPT ![calls[p].destAcct] = r.a]
           /\ Stepped(p, Done(calls[p], r.err))
    /\ UNCHANGED <<build, AccountNumbersByCustomer, AccountsByNumber, AccountNumbers,
                   Customers, LastAccountNum>>
    /\ UNCHANGED bankRest

Withdraw_newTransaction(p) ==
    /\ calls[p].op = "Withdraw"
    /\ calls[p].pos = "got"
    /\ LET r == newTransaction(accountHeap[calls[p].srcAcct], calls[p].amount)
       IN  /\ accountHeap' = [accountHeap EXCEPT ![calls[p].srcAcct] = r.a]
           /\ Stepped(p, Done(calls[p], r.err))
    /\ UNCHANGED <<build, AccountNumbersByCustomer, AccountsByNumber, AccountNumbers,
                   Customers, LastAccountNum>>
    /\ UNCHANGED bankRest

\* Transfer up to the return of getAccount for the source
Transfer_getSource(p) ==
    /\ Idle(p)
    /\ \E src, dst \in {0} \cup InitialNumbers, amt \in Amounts :
          LET c == Began([NoCall EXCEPT !.op = "Transfer", !.acct = src, !.dest = dst,
                                        !.amount = amt])
              a == getAccount(Requester, src)
          IN  IF amt <= 0
              THEN Stepped(p, Done([c EXCEPT !.acct = 0, !.dest = 0], "InvalidArgument"))
              ELSE IF src # 0 /\ a = 0 THEN Stepped(p, Done(c, "NotFound"))
              ELSE Stepped(p, [c EXCEPT !.pos = "gotSource", !.srcAcct = a])
    /\ UNCHANGED <<build, AccountNumbersByCustomer, AccountsByNumber, AccountNumbers,
                   Customers, LastAccountNum, accountHeap>>
    /\ UNCHANGED bankRest

\* ... for the destination
Transfer_getDest(p) ==
    /\ calls[p].pos = "gotSource"
    /\ LET a == getAccount(Requester, calls[p].dest)
       IN  IF calls[p].dest # 0 /\ a = 0 THEN Stepped(p, Done(calls[p], "NotFound"))
           ELSE Stepped(p, [calls[p] EXCEPT !.pos = "gotDest", !.destAcct = a])
    /\ UNCHANGED <<build, AccountNumbersByCustomer, AccountsByNumber, AccountNumbers,
                   Customers, LastAccountNum, accountHeap>>
    /\ UNCHANGED bankRest

\* the transaction on the source account
Transfer_debit(p) ==
    /\ calls[p].pos = "gotDest"
    /\ IF calls[p].srcAcct = 0
       THEN Stepped(p, [calls[p] EXCEPT !.pos = "debited"]) /\ UNCHANGED accountHeap
       ELSE LET r == newTransaction(accountHeap[calls[p].srcAcct], -calls[p].amount)
            IN  /\ accountHeap' = [accountHeap EXCEPT ![calls[p].srcAcct] = r.a]
                /\ IF r.err # "nil" THEN Stepped(p, Done(calls[p], r.err))
                   ELSE Stepped(p, [calls[p] EXCEPT !.pos = "debited"])
    /\ UNCHANGED <<build, AccountNumbersByCustomer, AccountsByNumber, AccountNumbers,
                   Customers, LastAccountNum>>
    /\ UNCHANGED bankRest

\* the transaction on the destination account, and the answer
Transfer_credit(p) ==
    /\ calls[p].pos = "debited"
    /\ IF calls[p].destAcct = 0
       THEN Stepped(p, Done(calls[p], "nil")) /\ UNCHANGED accountHeap
       ELSE LET r == newTransaction(accountHeap[calls[p].destAcct], calls[p].amount)
            IN  /\ accountHeap' = [accountHeap EXCEPT ![calls[p].destAcct] = r.a]
                /\ Stepped(p, Done(calls[p], r.err))
    /\ UNCHANGED <<build, AccountNumbersByCustomer, AccountsByNumber, AccountNumbers,
                   Customers, LastAccountNum>>
    /\ UNCHANGED bankRest

\* a database as OpenAccount builds it: the accounts are the requester's
InitBank ==
    /\ RpcIdle
    /\ DescIdle
    /\ ParserIdle
    /\ FmtIdle
    /\ HdrIdle
    /\ MainIdle
    /\ ChatIdle
    /\ build \in {"bank.go", "auth.go"}
    /\ AccountNumbersByCustomer = (Requester :> [n \in InitialNumbers |-> n])
    /\ Customers = <<Requester>>
    /\ AccountsByNumber = InitialNumbers
    /\ AccountNumbers = [n \in InitialNumbers |-> n]
    /\ LastAccountNum = Cardinality(InitialNumbers)
    /\ accountHeap \in [InitialNumbers ->
                          {[BalanceCents |-> d, Transactions |-> <<d>>] : d \in InitialDeposits}]
    /\ calls = [p \in 1..MaxBankCalls |-> NoCall]

NextBank ==
    \E p \in 1..MaxBankCalls :
        \/ OpenAccount(p)
        \/ CloseAccount(p)
        \/ Deposit_getAccount(p)
        \/ Deposit_newTransaction(p)
        \/ Withdraw_getAccount(p)
        \/ Withdraw_newTransaction(p)
        \/ Transfer_getSource(p)
        \/ Transfer_getDest(p)
        \/ Transfer_debit(p)
        \/ Transfer_credit(p)

SpecBank == InitBank /\ [][NextBank]_vars

----------------------------------------------------------------------------
\* Properties of the bank demo

\* handler p answers its request in this step
Answered(p) == calls[p].pos # "done" /\ calls'[p].pos = "done"

\* C26: a CloseAccount answered NotFound or FailedPrecondition leaves
\* AccountNumbers, AccountNumbersByCustomer and AccountsByNumber as they were
C26_FailedCloseChangesNothing ==
    [][\A p \in DOMAIN calls :
          (/\ Answered(p)
           /\ calls'[p].op = "CloseAccount"
           /\ calls'[p].err \in {"NotFound", "FailedPrecondition"})
              => UNCHANGED <<AccountNumbers, AccountNumbersByCustomer, AccountsByNumber>>]_vars

\* C27: when a Deposit, Withdraw or Transfer is answered with success, the
\* accounts it was applied to are in AccountsByNumber and in the customer's
\* list; and an account that leaves AccountsByNumber has balance zero
C27_AcknowledgedOnOpenAccount ==
    [][/\ \A p \in DOMAIN calls :
             (/\ Answered(p)
              /\ calls'[p].op \in {"Deposit", "Withdraw", "Transfer"}
              /\ calls'[p].err = "nil")
                 => \A a \in {calls'[p].srcAcct, calls'[p].destAcct} \ {0} :
                       /\ a \in AccountsByNumber'
                       /\ Contains(AccountNumbersByCustomer'[Requester], a)
       /\ \A n \in AccountsByNumber \ AccountsByNumber' :
             accountHeap[n].BalanceCents = 0]_vars

\* C30: after a Transfer between two accounts of the customer that ran with
\* no other request, the two balances add up to what they did before, and
\* when it was answered with an error no account has changed
C30_TransferConservesMoney ==
    \A p \in DOMAIN calls :
        (/\ calls[p].op = "Transfer"
         /\ calls[p].pos = "done"
         /\ calls[p].acct # 0
         /\ calls[p].dest # 0
         /\ \A q \in DOMAIN calls \ {p} : calls[q].pos = "idle")
            => LET b == calls[p].before
                   src == calls[p].acct
                   dst == calls[p].dest
                   gain(n) == accountHeap[n].BalanceCents - b[n].BalanceCents
               IN  /\ gain(src) + (IF dst # src THEN gain(dst) ELSE 0) = 0
                   /\ calls[p].err # "nil" => accountHeap = b

----------------------------------------------------------------------------
\* Chat demo

\* the streams of ChatCustomer and the stream of ChatAgent; an agent stream is named
\* after its agent
CustomerStreams == {"c1", "c2"}

AgentStreams == {"a1"}

\* session IDs a request may name: lastSession is printed with %06d, so an
\* ID is its number; 0 stands for the empty string
SessionIds == 1..MaxSessions

\* the server's sessions as one value
ChatDb == [by |-> chatsBySession, q |-> chatsAwaitingAgent, ss |-> sessions]

SetChatDb(db) ==
    /\ chatsBySession' = db.by
    /\ chatsAwaitingAgent' = db.q
    /\ sessions' = db.ss

\* cleanup of ChatCustomer
cleanupCustomer(db, sess) ==
    IF sess = 0 THEN db ELSE [db EXCEPT !.ss[sess].cust = "nil"]

\* cleanup of ChatAgent
cleanupAgent(db, agent, sess) ==
    IF sess = 0 THEN db
    ELSE LET agents == db.ss[sess].agents \ {agent}
         IN  [db EXCEPT !.ss[sess].agents = agents,
                        !.q = IF agents = {} THEN Append(@, sess) ELSE @]

\* checkSession of ChatAgent
checkSession(db, agent, sess) ==
    IF sess # 0 /\ ~db.ss[sess].active
    THEN [db |-> cleanupAgent(db, agent, sess), sess |-> 0]
    ELSE [db |-> db, sess |-> sess]

\* closeSession after it has found the session active: out of the map and
\* out of the queue
closeSession(db, sess) ==
    [db EXCEPT !.by = @ \ {sess}, !.q = Remove(@, sess)]

\* resumeSession: the session, 0 for nil, or the panic of the nil pointer
\* that an ID without an entry in chatsBySession gives
resumeSession(db, cust, sessionID) ==
    IF sessionID \notin db.by THEN [panic |-> TRUE, sess |-> 0]
    ELSE IF db.ss[sessionID].CustomerName # cust THEN [panic |-> FALSE, sess |-> 0]
    ELSE IF ~db.ss[sessionID].active THEN [panic |-> FALSE, sess |-> 0]
    ELSE IF db.ss[sessionID].cust # "nil" THEN [panic |-> FALSE, sess |-> 0]
    ELSE [panic |-> FALSE, sess |-> sessionID]

\* acceptSession: the queue it leaves and the session, 0 for nil
acceptSession(db, sessionID) ==
    IF db.q = <<>> THEN [q |-> db.q, sess |-> 0]
    ELSE IF sessionID = 0
    THEN [q |-> Tail(db.q), sess |-> IF Head(db.q) \in db.by THEN Head(db.q) ELSE 0]
    ELSE IF ~Contains(db.q, sessionID) THEN [q |-> db.q, sess |-> 0]
    ELSE [q |-> Remove(db.q, sessionID),
          sess |-> IF sessionID \in db.by THEN sessionID ELSE 0]

\* the handler of a stream returns
Ended(st, err) == [st EXCEPT !.pos = "ended", !.sess = 0, !.err = err]

\* the server has been started
ChatStarted == DOMAIN custStreams # {}

ChatUp == ChatStarted /\ ~crashed

\* ChatCustomer receives Init
Customer_Init(k) ==
    /\ ChatUp
    /\ custStreams[k].pos = "open"
    /\ \E id \in {0} \cup SessionIds :
          LET st == [custStreams[k] EXCEPT !.req = <<"Init", id>>]
              cust == st.cust
              r == resumeSession(ChatDb, cust, id)
              new == lastSession + 1
          IN  IF st.sess # 0
              THEN /\ custStreams' = [custStreams EXCEPT ![k] = Ended(st, "FailedPrecondition")]
                   /\ SetChatDb(cleanupCustomer(ChatDb, st.sess))
                   /\ UNCHANGED <<lastSession, crashed>>
              ELSE IF id = 0
              THEN /\ lastSession < MaxSessions
                   /\ lastSession' = new
                   /\ chatsAwaitingAgent' = Append(chatsAwaitingAgent, new)
                   /\ sessions' = Append(sessions,
                                         [CustomerName |-> cust, active |-> TRUE, cust |-> k,
                                          agents |-> {}, History |-> <<>>])
                   /\ chatsBySession' = chatsBySession \cup {new}
                   /\ custStreams' = [custStreams EXCEPT ![k] = [st EXCEPT !.sess = new]]
                   /\ UNCHANGED crashed
              ELSE IF r.panic
              THEN /\ crashed' = TRUE
                   /\ custStreams' = [custStreams EXCEPT ![k] = st]
                   /\ UNCHANGED <<chatsBySession, chatsAwaitingAgent, sessions, lastSession>>
              ELSE IF r.sess = 0
              THEN /\ custStreams' = [custStreams EXCEPT ![k] = Ended(st, "FailedPrecondition")]
                   /\ UNCHANGED <<chatsBySession, chatsAwaitingAgent, sessions, lastSession, crashed>>
              ELSE /\ sessions' = [sessions EXCEPT ![r.sess].cust = k]
                   /\ custStreams' = [custStreams EXCEPT ![k] = [st EXCEPT !.sess = r.sess]]
                   /\ UNCHANGED <<chatsBySession, chatsAwaitingAgent, lastSession, crashed>>
    /\ UNCHANGED agentStreams
    /\ UNCHANGED chatRest

\* ChatCustomer receives Msg
Customer_Msg(k) ==
    /\ ChatUp
    /\ custStreams[k].pos = "open"
    /\ LET st == [custStreams[k] EXCEPT !.req = <<"Msg", 0>>]
       IN  IF st.sess = 0
           THEN /\ custStreams' = [custStreams EXCEPT ![k] = Ended(st, "FailedPrecondition")]
                /\ UNCHANGED sessions
           ELSE /\ Len(sessions[st.sess].History) < MaxHistory
                /\ sessions' = [sessions EXCEPT ![st.sess].History = Append(@, k)]
                /\ custStreams' = [custStreams EXCEPT ![k] = st]
    /\ UNCHANGED <<chatsBySession, chatsAwaitingAgent, lastSession, agentStreams, crashed>>
    /\ UNCHANGED chatRest

\* ChatCustomer receives HangUp: up to the end of the first part of
\* closeSession, in which the session stops being active
Customer_HangUp(k) ==
    /\ ChatUp
    /\ custStreams[k].pos = "open"
    /\ LET st == [custStreams[k] EXCEPT !.req = <<"HangUp", 0>>]
       IN  IF st.sess = 0
           THEN /\ custStreams' = [custStreams EXCEPT ![k] = Ended(st, "FailedPrecondition")]
                /\ UNCHANGED sessions
           ELSE IF ~sessions[st.sess].active
           THEN /\ sessions' = cleanupCustomer(ChatDb, st.sess).ss
                /\ custStreams' = [custStreams EXCEPT ![k] = [st EXCEPT !.sess = 0]]
           ELSE /\ sessions' = [sessions EXCEPT ![st.sess].active = FALSE]
                /\ custStreams' = [custStreams EXCEPT ![k] = [st EXCEPT !.pos = "closing"]]
    /\ UNCHANGED <<chatsBySession, chatsAwaitingAgent, lastSession, agentStreams, crashed>>
    /\ UNCHANGED chatRest

\* ... the second part of closeSession, and cleanup
Customer_HangUp_delete(k) ==
    /\ ChatUp
    /\ custStreams[k].pos = "closing"
    /\ SetChatDb(cleanupCustomer(closeSession(ChatDb, custStreams[k].sess), custStreams[k].sess))
    /\ custStreams' = [custStreams EXCEPT ![k].sess = 0, ![k].pos = "open"]
    /\ UNCHANGED <<lastSession, agentStreams, crashed>>
    /\ UNCHANGED chatRest

\* the stream of a customer ends: Recv returns an error
Customer_End(k) ==
    /\ ChatUp
    /\ custStreams[k].pos = "open"
    /\ SetChatDb(cleanupCustomer(ChatDb, custStreams[k].sess))
    /\ custStreams' = [custStreams EXCEPT ![k] = Ended([@ EXCEPT !.req = <<"End", 0>>], "nil")]
    /\ UNCHANGED <<lastSession, agentStreams, crashed>>
    /\ UNCHANGED chatRest

\* ChatAgent receives Accept
Agent_Accept(a) ==
    /\ ChatUp
    /\ agentStreams[a].pos = "open"
    /\ \E id \in {0} \cup SessionIds :
          LET ck == checkSession(ChatDb, a, agentStreams[a].sess)
              st == [agentStreams[a] EXCEPT !.req = <<"Accept", id>>, !.sess = ck.sess]
              acc == acceptSession(ck.db, id)
          IN  IF ck.sess # 0
              THEN /\ agentStreams' = [agentStreams EXCEPT ![a] = Ended(st, "FailedPrecondition")]
                   /\ SetChatDb(cleanupAgent(ck.db, a, ck.sess))
              ELSE IF acc.sess = 0
              THEN /\ agentStreams' = [agentStreams EXCEPT ![a] = Ended(st, "FailedPrecondition")]
                   /\ SetChatDb([ck.db EXCEPT !.q = acc.q])
              ELSE /\ agentStreams' = [agentStreams EXCEPT ![a] = [st EXCEPT !.sess = acc.sess]]
                   /\ SetChatDb([ck.db EXCEPT !.q = acc.q,
                                              !.ss[acc.sess].agents = @ \cup {a}])
    /\ UNCHANGED <<lastSession, custStreams, crashed>>
    /\ UNCHANGED chatRest

\* ChatAgent receives Msg
Agent_Msg(a) ==
    /\ ChatUp
    /\ agentStreams[a].pos = "open"
    /\ LET ck == checkSession(ChatDb, a, agentStreams[a].sess)
           st == [agentStreams[a] EXCEPT !.req = <<"Msg", 0>>, !.sess = ck.sess]
       IN  IF ck.sess = 0
           THEN /\ agentStreams' = [agentStreams EXCEPT ![a] = Ended(st, "FailedPrecondition")]
                /\ SetChatDb(ck.db)
           ELSE /\ Len(ck.db.ss[ck.sess].History) < MaxHistory
                /\ agentStreams' = [agentStreams EXCEPT ![a] = st]
                /\ SetChatDb([ck.db EXCEPT !.ss[ck.sess].History = Append(@, a)])
    /\ UNCHANGED <<lastSession, custStreams, crashed>>
    /\ UNCHANGED chatRest

\* ChatAgent receives LeaveSession: up to the end of the first part of
\* closeSession
Agent_LeaveSession(a) ==
    /\ ChatUp
    /\ agentStreams[a].pos = "open"
    /\ LET ck == checkSession(ChatDb, a, agentStreams[a].sess)
           st == [agentStreams[a] EXCEPT !.req = <<"LeaveSession", 0>>, !.sess = ck.sess]
       IN  IF ck.sess = 0
           THEN /\ agentStreams' = [agentStreams EXCEPT ![a] = Ended(st, "FailedPrecondition")]
                /\ SetChatDb(ck.db)
           ELSE /\ agentStreams' = [agentStreams EXCEPT ![a] = [st EXCEPT !.pos = "closing"]]
                /\ SetChatDb([ck.db EXCEPT !.ss[ck.sess].active = FALSE])
    /\ UNCHANGED <<lastSession, custStreams, crashed>>
    /\ UNCHANGED chatRest

\* ... the second part of closeSession, and cleanup
Agent_LeaveSession_delete(a) ==
    /\ ChatUp
    /\ agentStreams[a].pos = "closing"
    /\ SetChatDb(cleanupAgent(closeSession(ChatDb, agentStreams[a].sess), a, agentStreams[a].sess))
    /\ agentStreams' = [agentStreams EXCEPT ![a].sess = 0, ![a].pos = "open"]
    /\ UNCHANGED <<lastSession, custStreams, crashed>>
    /\ UNCHANGED chatRest

\* the stream of an agent ends: Recv returns an error
Agent_End(a) ==
    /\ ChatUp
    /\ agentStreams[a].pos = "open"
    /\ SetChatDb(cleanupAgent(ChatDb, a, agentStreams[a].sess))
    /\ agentStreams' = [agentStreams EXCEPT ![a] = Ended([@ EXCEPT !.req = <<"End", 0>>], "nil")]
    /\ UNCHANGED <<lastSession, custStreams, crashed>>
    /\ UNCHANGED chatRest

\* the customers that call the server
ChatCustomers == {"alice", "bob"}

NoStream == [pos |-> "open", cust |-> "agent", sess |-> 0, req |-> <<"none", 0>>, err |-> "nil"]

\* a server without sessions; every stream has been opened and has sent
\* nothing
InitChat ==
    /\ RpcIdle
    /\ DescIdle
    /\ ParserIdle
    /\ FmtIdle
    /\ HdrIdle
    /\ MainIdle
    /\ BankIdle
    /\ chatsBySession = {}
    /\ chatsAwaitingAgent = <<>>
    /\ lastSession = 0
    /\ sessions = <<>>
    /\ custStreams \in {f \in [CustomerStreams -> {[NoStream EXCEPT !.cust = c] : c \in ChatCustomers}] :
                           f["c1"].cust = "alice"}
    /\ agentStreams = [a \in AgentStreams |-> NoStream]
    /\ crashed = FALSE

NextChat ==
    \/ \E k \in CustomerStreams : Customer_Init(k)
    \/ \E k \in CustomerStreams : Customer_Msg(k)
    \/ \E k \in CustomerStreams : Customer_HangUp(k)
    \/ \E k \in CustomerStreams : Customer_HangUp_delete(k)
    \/ \E k \in CustomerStreams : Customer_End(k)
    \/ \E a \in AgentStreams : Agent_Accept(a)
    \/ \E a \in AgentStreams : Agent_Msg(a)
    \/ \E a \in AgentStreams : Agent_LeaveSession(a)
    \/ \E a \in AgentStreams : Agent_LeaveSession_delete(a)
    \/ \E a \in AgentStreams : Agent_End(a)

SpecChat == InitChat /\ [][NextChat]_vars

\* C28: every session ID in chatsAwaitingAgent is the ID of an active
\* session present in chatsBySession, and is in the queue at most once.
C28_QueueHoldsOpenSessionsOnce ==
    ChatStarted =>
        /\ \A i \in DOMAIN chatsAwaitingAgent :
              /\ chatsAwaitingAgent[i] \in chatsBySession
              /\ sessions[chatsAwaitingAgent[i]].active
        /\ \A i, j \in DOMAIN chatsAwaitingAgent :
              chatsAwaitingAgent[i] = chatsAwaitingAgent[j] => i = j

\* the ID names an open session of the customer of stream k that the
\* stream may resume
Resumable(k, id) ==
    /\ id \in chatsBySession
    /\ sessions[id].CustomerName = custStreams[k].cust
    /\ sessions[id].active
    /\ sessions[id].cust = "nil"

\* stream k, which has no session, takes an Init that resumes session id
ResumeBy(k, id) ==
    /\ ChatStarted
    /\ custStreams[k].pos = "open"
    /\ custStreams[k].sess = 0
    /\ custStreams'[k].req = <<"Init", id>>
    /\ (custStreams'[k] # custStreams[k] \/ crashed')

\* C29: an Init whose ResumeSessionId does not name an open session of the
\* customer is answered FailedPrecondition and leaves the sessions as they
\* were.
C29_BadResumeIsRejected ==
    [][\A k \in CustomerStreams, id \in SessionIds :
          (ResumeBy(k, id) /\ ~Resumable(k, id)) =>
              /\ ~crashed'
              /\ custStreams'[k].pos = "ended"
              /\ custStreams'[k].err = "FailedPrecondition"
              /\ UNCHANGED <<chatsBySession, chatsAwaitingAgent, lastSession, sessions>>]_vars
====
